---- MODULE Spec2Model ----
(***************************************************************************)
(* Model of the simulation runtime of the CFD trading competition backend: *)
(* the calculation kernel, the CFD engine, the portfolio manager, the      *)
(* trading engine, the order loop of the agent invoker and the             *)
(* mark-to-market job of the scheduler.                                    *)
(*                                                                         *)
(* Money, prices and quantities are integers; the modelled orders and      *)
(* positions are chosen so that quantity * price / leverage is exact.      *)
(* Quotients that are not exact (margin level, percentages, leverage       *)
(* ratio) are kept as fractions <<numerator, denominator>> with a positive *)
(* denominator.  An optional value is <<>> (None) or <<v>>.                *)
(***************************************************************************)
EXTENDS Integers, Sequences, FiniteSets, TLC

VARIABLES participants, portfolios, positions, orders, trades, history,
          invocations, uuid, quote, ticks, competitions, jobs, last

vars == <<participants, portfolios, positions, orders, trades, history,
          invocations, uuid, quote, ticks, competitions, jobs, last>>

(* ---------------------------------------------------------------------- *)
(* Bounds of the model and configuration of the modelled competition.     *)
(* ---------------------------------------------------------------------- *)
MaxInvocations == 1
MaxReplyLen == 2
MaxTicks == 1
MaxMoves == 1
MaxSeedPositions == 2
MaxUpdates == 3

InitialCapital == 100
MaxLeverage == 10
MaintenanceMarginPct == 5

Parts == {"p1", "p2"}
Competitions == {"c1", "c2"}
\* participant.competition_id
CompetitionOf == [p1 |-> "c1", p2 |-> "c2"]
Symbols == {"BTCUSDT", "ETHUSDT"}
Prices == [BTCUSDT |-> {50, 100, 120}, ETHUSDT |-> {100, 120}]

None == <<>>
Some(x) == <<x>>
Val(o) == o[1]

(* ---------------------------------------------------------------------- *)
(* Exact fractions.                                                        *)
(* ---------------------------------------------------------------------- *)
Frac(n, d) == <<n, d>>
FracMul(a, k) == <<a[1] * k, a[2]>>
FracDiv(a, b) == <<a[1] * b[2], a[2] * b[1]>>
FracLess(a, b) == a[1] * b[2] < b[1] * a[2]
FracEq(a, b) == a[1] * b[2] = b[1] * a[2]

\* sum(row.field for row in S)
SumBy(S, field) ==
  LET RECURSIVE go(_)
      go(T) == IF T = {} THEN 0
               ELSE LET x == CHOOSE y \in T : TRUE IN x[field] + go(T \ {x})
  IN go(S)

(* ---------------------------------------------------------------------- *)
(* Calculation kernel (app/utils/calculations.py).                         *)
(* ---------------------------------------------------------------------- *)
calculate_notional_value(quantity, price) == quantity * price

\* notional_value / leverage, a division of signed decimals that raises for
\* a leverage of zero.
calculate_margin_required(notional_value, leverage) ==
  IF leverage > 0 THEN notional_value \div leverage
  ELSE -(notional_value \div (-leverage))

calculate_unrealized_pnl_long(quantity, entry_price, current_price) ==
  quantity * (current_price - entry_price)

\* Mutant: the short formula with the sign of the long one.
calculate_unrealized_pnl_short_as_long(quantity, entry_price, current_price) ==
  quantity * (current_price - entry_price)

calculate_unrealized_pnl_short(quantity, entry_price, current_price) ==
  quantity * (entry_price - current_price)

calculate_unrealized_pnl(side, quantity, entry_price, current_price) ==
  IF side = "long"
  THEN calculate_unrealized_pnl_long(quantity, entry_price, current_price)
  ELSE calculate_unrealized_pnl_short(quantity, entry_price, current_price)

calculate_pnl_percentage(pnl, entry_value) ==
  IF entry_value = 0 THEN Frac(0, 1) ELSE Frac(pnl * 100, entry_value)

calculate_equity(cash_balance, unrealized_pnl) == cash_balance + unrealized_pnl

calculate_margin_level(equity, margin_used) ==
  IF margin_used = 0 THEN Frac(9999, 1) ELSE Frac(equity * 100, margin_used)

calculate_current_leverage(total_notional_value, equity) ==
  IF equity = 0 THEN Frac(0, 1)
  ELSE IF equity > 0 THEN Frac(total_notional_value, equity)
  ELSE Frac(-total_notional_value, -equity)

\* Mutant: a margin level equal to the threshold liquidates.
check_liquidation_inclusive(margin_level, maintenance_margin_pct, initial_margin_pct) ==
  LET liquidation_threshold ==
        FracMul(FracDiv(Frac(maintenance_margin_pct, 1), initial_margin_pct), 100)
  IN FracLess(margin_level, liquidation_threshold)
     \/ FracEq(margin_level, liquidation_threshold)

check_liquidation(margin_level, maintenance_margin_pct, initial_margin_pct) ==
  LET liquidation_threshold ==
        FracMul(FracDiv(Frac(maintenance_margin_pct, 1), initial_margin_pct), 100)
  IN FracLess(margin_level, liquidation_threshold)

(* ---------------------------------------------------------------------- *)
(* The database session.  A work record d carries the tables, the          *)
(* session's unflushed state (mem: position objects changed in memory,     *)
(* deleted: ids marked for deletion) and the log of update_portfolio       *)
(* calls made by the running handler.                                      *)
(* ---------------------------------------------------------------------- *)
autoflush == FALSE

InMemory(d, row) ==
  IF \E m \in d.mem : m.id = row.id
  THEN CHOOSE m \in d.mem : m.id = row.id
  ELSE row

Flush(d) ==
  [d EXCEPT !.positions = {InMemory(d, r) : r \in {x \in d.positions : x.id \notin d.deleted}},
            !.mem = {},
            !.deleted = {}]

\* select(Position).where(...): the rows of the table, as the objects the
\* session holds for them.  Without autoflush a row marked for deletion is
\* still in the table and is still returned.
QueryPositions(d) ==
  IF autoflush
  THEN Flush(d).positions
  ELSE {InMemory(d, r) : r \in d.positions}

commit(d) == Flush(d)

Touch(d, pos) == [d EXCEPT !.mem = {m \in d.mem : m.id # pos.id} \cup {pos}]

Delete(d, pos) == [d EXCEPT !.deleted = d.deleted \cup {pos.id}]

(* ---------------------------------------------------------------------- *)
(* CFD engine (app/services/cfd_engine.py).                                *)
(* ---------------------------------------------------------------------- *)
calculate_position_metrics(side, quantity, entry_price, current_price, leverage) ==
  LET entry_value == calculate_notional_value(quantity, entry_price)
      pnl == calculate_unrealized_pnl(side, quantity, entry_price, current_price)
  IN [notional_value |-> calculate_notional_value(quantity, current_price),
      margin_required |-> calculate_margin_required(entry_value, leverage),
      unrealized_pnl |-> pnl,
      unrealized_pnl_pct |-> calculate_pnl_percentage(pnl, entry_value)]

\* Mutant: the margin is recomputed from the notional at the new price.
Revalued_remargins(position, new_price) ==
  LET metrics == calculate_position_metrics(position.side, position.quantity,
                     position.entry_price, new_price, position.leverage)
  IN [position EXCEPT !.current_price = new_price,
                      !.notional_value = metrics.notional_value,
                      !.margin_required =
                          calculate_margin_required(metrics.notional_value, position.leverage),
                      !.unrealized_pnl = metrics.unrealized_pnl,
                      !.unrealized_pnl_pct = metrics.unrealized_pnl_pct]

Revalued(position, new_price) ==
  LET metrics == calculate_position_metrics(position.side, position.quantity,
                     position.entry_price, new_price, position.leverage)
  IN [position EXCEPT !.current_price = new_price,
                      !.notional_value = metrics.notional_value,
                      !.unrealized_pnl = metrics.unrealized_pnl,
                      !.unrealized_pnl_pct = metrics.unrealized_pnl_pct]

update_position_price(d, position, new_price) ==
  commit(Touch(d, Revalued(position, new_price)))

\* Mutant: the realized P&L is read before the final revaluation.
close_position_stale_pnl(d, position, closing_price) ==
  LET closed == Revalued(position, closing_price)
  IN [d |-> Delete(Touch(d, closed), closed),
      realized_pnl |-> position.unrealized_pnl,
      realized_pnl_pct |-> position.unrealized_pnl_pct,
      margin_released |-> closed.margin_required]

\* The final revaluation and the deletion are staged in the session; the
\* caller commits.
close_position(d, position, closing_price) ==
  LET closed == Revalued(position, closing_price)
  IN [d |-> Delete(Touch(d, closed), closed),
      realized_pnl |-> closed.unrealized_pnl,
      realized_pnl_pct |-> closed.unrealized_pnl_pct,
      margin_released |-> closed.margin_required]

\* The parameters open_position declares besides self.
open_position_parameters ==
  {"portfolio", "symbol", "asset_class", "side", "quantity", "entry_price", "leverage"}

NewPosition(id, portfolio_id, symbol, side, quantity, entry_price, leverage) ==
  LET metrics == calculate_position_metrics(side, quantity, entry_price, entry_price, leverage)
  IN [id |-> id,
      portfolio_id |-> portfolio_id,
      participant_id |-> portfolio_id,
      symbol |-> symbol,
      side |-> side,
      quantity |-> quantity,
      entry_price |-> entry_price,
      current_price |-> entry_price,
      leverage |-> leverage,
      margin_required |-> metrics.margin_required,
      notional_value |-> metrics.notional_value,
      unrealized_pnl |-> 0,
      unrealized_pnl_pct |-> Frac(0, 1)]

\* CheckConstraint("quantity > 0", name="positive_quantity") and
\* CheckConstraint("leverage > 0", name="positive_leverage") of the
\* positions table.
PositionConstraints(quantity, leverage) == quantity > 0 /\ leverage > 0

\* db.add(position); db.commit(): the INSERT of a row that violates the
\* constraints of the table fails and the commit raises.
open_position(d, portfolio_id, symbol, side, quantity, entry_price, leverage) ==
  LET position == NewPosition(d.uuid + 1, portfolio_id, symbol, side, quantity,
                              entry_price, leverage)
  IN IF ~PositionConstraints(quantity, leverage)
     THEN [d EXCEPT !.mem = {}, !.deleted = {}, !.raised = "IntegrityError"]
     ELSE commit([d EXCEPT !.positions = d.positions \cup {position},
                           !.uuid = d.uuid + 1])

(* ---------------------------------------------------------------------- *)
(* Portfolio manager (app/services/portfolio_manager.py).                  *)
(* ---------------------------------------------------------------------- *)
create_portfolio(initial_capital) ==
  [cash_balance |-> initial_capital,
   equity |-> initial_capital,
   margin_used |-> 0,
   margin_available |-> initial_capital,
   realized_pnl |-> 0,
   unrealized_pnl |-> 0,
   total_pnl |-> 0,
   current_leverage |-> Frac(0, 1),
   margin_level |-> None]

record_portfolio_history(d, p) ==
  LET portfolio == d.portfolios[p]
  IN commit([d EXCEPT !.history = Append(d.history,
               [participant_id |-> p,
                equity |-> portfolio.equity,
                cash_balance |-> portfolio.cash_balance,
                margin_used |-> portfolio.margin_used,
                realized_pnl |-> portfolio.realized_pnl,
                unrealized_pnl |-> portfolio.unrealized_pnl,
                total_pnl |-> portfolio.total_pnl])])

PositionsOf(table, p) == {x \in table : x.portfolio_id = p}

\* Mutant: the unrealized P&L is booked into cash at every recomputation.
Recomputed_books_unrealized(portfolio, held) ==
  LET total_margin_used == SumBy(held, "margin_required")
      total_unrealized_pnl == SumBy(held, "unrealized_pnl")
      total_notional_value == SumBy(held, "notional_value")
      equity == calculate_equity(portfolio.cash_balance, total_unrealized_pnl)
  IN [portfolio EXCEPT
        !.cash_balance = @ + total_unrealized_pnl,
        !.equity = equity,
        !.margin_used = total_margin_used,
        !.margin_available = equity - total_margin_used,
        !.unrealized_pnl = total_unrealized_pnl,
        !.total_pnl = portfolio.realized_pnl + total_unrealized_pnl,
        !.margin_level = IF total_margin_used > 0
                         THEN Some(calculate_margin_level(equity, total_margin_used))
                         ELSE None,
        !.current_leverage = calculate_current_leverage(total_notional_value, equity)]

Recomputed(portfolio, held) ==
  LET total_margin_used == SumBy(held, "margin_required")
      total_unrealized_pnl == SumBy(held, "unrealized_pnl")
      total_notional_value == SumBy(held, "notional_value")
      equity == calculate_equity(portfolio.cash_balance, total_unrealized_pnl)
  IN [portfolio EXCEPT
        !.equity = equity,
        !.margin_used = total_margin_used,
        !.margin_available = equity - total_margin_used,
        !.unrealized_pnl = total_unrealized_pnl,
        !.total_pnl = portfolio.realized_pnl + total_unrealized_pnl,
        !.margin_level = IF total_margin_used > 0
                         THEN Some(calculate_margin_level(equity, total_margin_used))
                         ELSE None,
        !.current_leverage = calculate_current_leverage(total_notional_value, equity)]

\* The ledger of update_portfolio calls: the portfolio and its position rows
\* as they are when the call returns.
LogCall(d, p) ==
  [d EXCEPT !.calls = Append(d.calls,
      [p |-> p, portfolio |-> d.portfolios[p],
       positions |-> PositionsOf(d.positions, p)])]

\* Reads the positions through the session, writes the aggregates, commits,
\* appends a history row.
update_portfolio(d, p) ==
  LogCall(
    record_portfolio_history(
      commit([d EXCEPT !.portfolios[p] =
                Recomputed(d.portfolios[p],
                           {x \in QueryPositions(d) : x.portfolio_id = p})]),
      p),
    p)

\* Mutant: the debit model, in which an open takes its margin out of cash.
allocate_margin_debit(d, p, margin_amount) ==
  update_portfolio([d EXCEPT !.portfolios[p].cash_balance = @ - margin_amount], p)

allocate_margin(d, p, margin_amount) == update_portfolio(d, p)

release_margin(d, p, margin_amount, realized_pnl) ==
  update_portfolio(
    [d EXCEPT !.portfolios[p].cash_balance = @ + realized_pnl,
              !.portfolios[p].realized_pnl = @ + realized_pnl], p)

\* Mutant: the peak follows the equity down.
update_participant_equity_peak_follows(d, p, new_equity) ==
  commit([d EXCEPT !.participants[p].current_equity = new_equity,
                   !.participants[p].peak_equity = new_equity])

update_participant_equity(d, p, new_equity) ==
  commit([d EXCEPT !.participants[p].current_equity = new_equity,
                   !.participants[p].peak_equity =
                       IF new_equity > @ THEN new_equity ELSE @])

\* total_realized_pnl += ..., total_margin_released += ... for one closed
\* position.
Accumulate(acc, position, close_result) ==
  [d |-> close_result.d,
   total_realized_pnl |-> acc.total_realized_pnl + close_result.realized_pnl,
   total_margin_released |-> acc.total_margin_released + close_result.margin_released,
   closed |-> acc.closed \cup {position.id}]

\* Mutant: the loop is left at the first position whose symbol has no price.
RECURSIVE CloseAll_stops_at_missing_price(_, _, _)
CloseAll_stops_at_missing_price(acc, todo, quotes) ==
  IF todo = {} \/ \E x \in todo : quotes[x.symbol] = None THEN acc
  ELSE LET position == CHOOSE x \in todo : TRUE
       IN CloseAll_stops_at_missing_price(
            Accumulate(acc, position,
                       close_position(acc.d, position, Val(quotes[position.symbol]))),
            todo \ {position}, quotes)

\* The loop of check_and_liquidate over the positions it loaded.
RECURSIVE CloseAll(_, _, _)
CloseAll(acc, todo, quotes) ==
  IF todo = {} THEN acc
  ELSE LET position == CHOOSE x \in todo : TRUE
           current_price == quotes[position.symbol]
           rest == todo \ {position}
       IN IF current_price = None
          THEN CloseAll(acc, rest, quotes)
          ELSE CloseAll(Accumulate(acc, position,
                                   close_position(acc.d, position, Val(current_price))),
                        rest, quotes)

LiquidationThresholdCrossed(portfolio) ==
  check_liquidation(Frac(portfolio.equity * 100, portfolio.margin_used),
                    MaintenanceMarginPct, Frac(100, MaxLeverage))

\* What check_and_liquidate does once the positions are closed.
Liquidate(swept, p) ==
  [d |-> commit([update_portfolio(
                   [swept.d EXCEPT
                      !.portfolios[p].cash_balance = @ + swept.total_realized_pnl,
                      !.portfolios[p].realized_pnl = @ + swept.total_realized_pnl], p)
                 EXCEPT !.participants[p].status = "liquidated"]),
   result |-> TRUE,
   closed |-> swept.closed]

check_and_liquidate(d, p, quotes) ==
  LET participant == d.participants[p]
      portfolio == d.portfolios[p]
      held == {x \in QueryPositions(d) : x.portfolio_id = p}
  IN IF participant.status # "active" THEN [d |-> d, result |-> FALSE, closed |-> {}]
     ELSE IF portfolio.margin_used <= 0 THEN [d |-> d, result |-> FALSE, closed |-> {}]
     ELSE IF ~LiquidationThresholdCrossed(portfolio) THEN [d |-> d, result |-> FALSE, closed |-> {}]
     ELSE IF held = {} THEN [d |-> d, result |-> FALSE, closed |-> {}]
     ELSE Liquidate(CloseAll([d |-> d, total_realized_pnl |-> 0,
                              total_margin_released |-> 0, closed |-> {}], held, quotes), p)

(* ---------------------------------------------------------------------- *)
(* Trading engine (app/services/trading_engine.py).                        *)
(* ---------------------------------------------------------------------- *)
get_price(quotes, symbol) == quotes[symbol]

\* Mutant: an open needing exactly the available margin is refused.
validate_order_margin_inclusive(d, p, symbol, side, quantity, leverage, action, position_id, quotes) ==
  LET participant == d.participants[p]
      portfolio == d.portfolios[p]
      price == get_price(quotes, symbol)
      margin_required ==
        calculate_margin_required(calculate_notional_value(quantity, Val(price)), leverage)
      found == {x \in QueryPositions(d) : x.id = Val(position_id)}
      position == CHOOSE x \in found : TRUE
  IN IF participant.status # "active"
     THEN [ok |-> FALSE, reason |-> "Participant is not active"]
     ELSE IF leverage > MaxLeverage
     THEN [ok |-> FALSE, reason |-> "Leverage exceeds max"]
     ELSE IF action = "open"
     THEN IF price = None
          THEN [ok |-> FALSE, reason |-> "Could not fetch price"]
          ELSE IF margin_required >= portfolio.margin_available
          THEN [ok |-> FALSE, reason |-> "Insufficient margin"]
          ELSE [ok |-> TRUE, reason |-> ""]
     ELSE IF action \in {"close", "increase", "decrease"}
     THEN IF position_id = None
          THEN [ok |-> FALSE, reason |-> "Position ID required for close/increase/decrease"]
          ELSE IF found = {}
          THEN [ok |-> FALSE, reason |-> "Position not found"]
          ELSE IF position.participant_id # p
          THEN [ok |-> FALSE, reason |-> "Position does not belong to this participant"]
          ELSE [ok |-> TRUE, reason |-> ""]
     ELSE [ok |-> TRUE, reason |-> ""]

\* Mutant: the owner of the position is not compared with the participant.
validate_order_any_owner(d, p, symbol, side, quantity, leverage, action, position_id, quotes) ==
  LET participant == d.participants[p]
      portfolio == d.portfolios[p]
      price == get_price(quotes, symbol)
      margin_required ==
        calculate_margin_required(calculate_notional_value(quantity, Val(price)), leverage)
      found == {x \in QueryPositions(d) : x.id = Val(position_id)}
      position == CHOOSE x \in found : TRUE
  IN IF participant.status # "active"
     THEN [ok |-> FALSE, reason |-> "Participant is not active"]
     ELSE IF leverage > MaxLeverage
     THEN [ok |-> FALSE, reason |-> "Leverage exceeds max"]
     ELSE IF action = "open"
     THEN IF price = None
          THEN [ok |-> FALSE, reason |-> "Could not fetch price"]
          ELSE IF margin_required > portfolio.margin_available
          THEN [ok |-> FALSE, reason |-> "Insufficient margin"]
          ELSE [ok |-> TRUE, reason |-> ""]
     ELSE IF action \in {"close", "increase", "decrease"}
     THEN IF position_id = None
          THEN [ok |-> FALSE, reason |-> "Position ID required for close/increase/decrease"]
          ELSE IF found = {}
          THEN [ok |-> FALSE, reason |-> "Position not found"]
          ELSE IF FALSE
          THEN [ok |-> FALSE, reason |-> "Position does not belong to this participant"]
          ELSE [ok |-> TRUE, reason |-> ""]
     ELSE [ok |-> TRUE, reason |-> ""]

validate_order(d, p, symbol, side, quantity, leverage, action, position_id, quotes) ==
  LET participant == d.participants[p]
      portfolio == d.portfolios[p]
      price == get_price(quotes, symbol)
      margin_required ==
        calculate_margin_required(calculate_notional_value(quantity, Val(price)), leverage)
      found == {x \in QueryPositions(d) : x.id = Val(position_id)}
      position == CHOOSE x \in found : TRUE
  IN IF participant.status # "active"
     THEN [ok |-> FALSE, reason |-> "Participant is not active"]
     ELSE IF leverage > MaxLeverage
     THEN [ok |-> FALSE, reason |-> "Leverage exceeds max"]
     ELSE IF action = "open"
     THEN IF price = None
          THEN [ok |-> FALSE, reason |-> "Could not fetch price"]
          ELSE IF margin_required > portfolio.margin_available
          THEN [ok |-> FALSE, reason |-> "Insufficient margin"]
          ELSE [ok |-> TRUE, reason |-> ""]
     ELSE IF action \in {"close", "increase", "decrease"}
     THEN IF position_id = None
          THEN [ok |-> FALSE, reason |-> "Position ID required for close/increase/decrease"]
          ELSE IF found = {}
          THEN [ok |-> FALSE, reason |-> "Position not found"]
          ELSE IF position.participant_id # p
          THEN [ok |-> FALSE, reason |-> "Position does not belong to this participant"]
          ELSE [ok |-> TRUE, reason |-> ""]
     ELSE [ok |-> TRUE, reason |-> ""]

Reject(d, oid, reason) ==
  commit([d EXCEPT !.orders[oid].status = "rejected",
                   !.orders[oid].rejection_reason = reason])

\* The keyword arguments _execute_open passes to CFDEngine.open_position.
execute_open_keywords ==
  {"portfolio", "symbol", "asset_class", "side", "quantity", "entry_price",
   "leverage", "exit_plan"}

\* The trade row and the order status written by _execute_open.
RecordOpen(d, oid, p, price, margin_required) ==
  commit([d EXCEPT
    !.orders[oid].status = "executed",
    !.trades = Append(d.trades,
       [order_id |-> oid,
        participant_id |-> p,
        position_id |-> Some(d.uuid),
        symbol |-> d.orders[oid].symbol,
        side |-> d.orders[oid].side,
        quantity |-> d.orders[oid].quantity,
        price |-> price,
        action |-> "open",
        leverage |-> d.orders[oid].leverage,
        notional_value |-> calculate_notional_value(d.orders[oid].quantity, price),
        margin_impact |-> margin_required,
        realized_pnl |-> None,
        realized_pnl_pct |-> None])])

\* portfolio = update_portfolio(portfolio);
\* update_participant_equity(participant, portfolio.equity)
RefreshEquity(d, p) == update_participant_equity(d, p, d.portfolios[p].equity)

Raise(d, exception) == [d EXCEPT !.raised = exception]

\* Mutant: the position is added to the table whatever its terms.
execute_open_adds_position(d, oid, p, price) ==
  [d EXCEPT !.positions = @ \cup {NewPosition(d.uuid + 1, p, d.orders[oid].symbol, "long",
                                              d.orders[oid].quantity, price,
                                              d.orders[oid].leverage)},
            !.uuid = @ + 1]

execute_open(d, oid, p, price) ==
  LET order == d.orders[oid]
      position_side == IF order.side = "buy" THEN "long" ELSE "short"
      notional_value == calculate_notional_value(order.quantity, price)
      margin_required == calculate_margin_required(notional_value, order.leverage)
  IN IF ~(execute_open_keywords \subseteq open_position_parameters)
     THEN Raise(allocate_margin(d, p, margin_required), "TypeError")
     ELSE RefreshEquity(
            update_portfolio(
              RecordOpen(
                open_position(allocate_margin(d, p, margin_required), p, order.symbol,
                              position_side, order.quantity, price, order.leverage),
                oid, p, price, margin_required),
              p),
            p)

\* Mutant: a break-even close counts as a win.
update_trade_counters_breakeven_wins(participant, realized_pnl) ==
  [participant EXCEPT
     !.total_trades = @ + 1,
     !.winning_trades = IF realized_pnl >= 0 THEN @ + 1 ELSE @,
     !.losing_trades = IF realized_pnl < 0 THEN @ + 1 ELSE @]

\* participant.total_trades += 1 and the win / loss counters.
update_trade_counters(participant, realized_pnl) ==
  [participant EXCEPT
     !.total_trades = @ + 1,
     !.winning_trades = IF realized_pnl > 0 THEN @ + 1 ELSE @,
     !.losing_trades = IF realized_pnl > 0 THEN @
                       ELSE IF realized_pnl < 0 THEN @ + 1 ELSE @]

\* The trade row, the order status and the participant counters written by
\* _execute_close.
RecordClose(d, oid, p, price, position, close_result) ==
  commit([d EXCEPT
    !.orders[oid].status = "executed",
    !.trades = Append(d.trades,
       [order_id |-> oid,
        participant_id |-> p,
        position_id |-> None,
        symbol |-> d.orders[oid].symbol,
        side |-> d.orders[oid].side,
        quantity |-> d.orders[oid].quantity,
        price |-> price,
        action |-> "close",
        leverage |-> position.leverage,
        notional_value |-> calculate_notional_value(d.orders[oid].quantity, price),
        margin_impact |-> -close_result.margin_released,
        realized_pnl |-> Some(close_result.realized_pnl),
        realized_pnl_pct |-> Some(close_result.realized_pnl_pct)]),
    !.participants[p] = update_trade_counters(@, close_result.realized_pnl)])

\* _execute_close from the result of close_position on.
SettleClose(oid, p, price, position, close_result) ==
  RefreshEquity(
    update_portfolio(
      RecordClose(
        release_margin(close_result.d, p, close_result.margin_released,
                       close_result.realized_pnl),
        oid, p, price, position, close_result),
      p),
    p)

execute_close(d, oid, p, price, position_id) ==
  LET order == d.orders[oid]
      found == IF position_id # None
               THEN {x \in QueryPositions(d) : x.id = Val(position_id)}
               ELSE {x \in QueryPositions(d) :
                       x.participant_id = p /\ x.symbol = order.symbol}
      position == CHOOSE x \in found : TRUE
  IN IF found = {}
     THEN Reject(d, oid, "Position not found")
     ELSE SettleClose(oid, p, price, position, close_position(d, position, price))

\* Mutant: an order without a market price is left pending.
execute_order_unpriced_pending(d, oid, action, position_id, quotes) ==
  LET order == d.orders[oid]
      p == order.participant_id
      execution_price == get_price(quotes, order.symbol)
      d1 == [d EXCEPT !.orders[oid].executed_price = execution_price]
  IN IF execution_price = None
     THEN d
     ELSE IF action = "open"
     THEN execute_open(d1, oid, p, Val(execution_price))
     ELSE IF action = "close"
     THEN execute_close(d1, oid, p, Val(execution_price), position_id)
     ELSE Reject(d1, oid, "Action not yet implemented")

execute_order(d, oid, action, position_id, quotes) ==
  LET order == d.orders[oid]
      p == order.participant_id
      execution_price == get_price(quotes, order.symbol)
      d1 == [d EXCEPT !.orders[oid].executed_price = execution_price]
  IN IF execution_price = None
     THEN Reject(d, oid, "Could not fetch market price")
     ELSE IF action = "open"
     THEN execute_open(d1, oid, p, Val(execution_price))
     ELSE IF action = "close"
     THEN execute_close(d1, oid, p, Val(execution_price), position_id)
     ELSE Reject(d1, oid, "Action not yet implemented")

(* ---------------------------------------------------------------------- *)
(* Agent invoker (app/services/llm_invoker.py).                            *)
(* ---------------------------------------------------------------------- *)
Snapshot(d) ==
  [participants |-> d.participants, portfolios |-> d.portfolios,
   positions |-> d.positions, orders |-> d.orders, trades |-> d.trades,
   history |-> d.history]

\* Mutant: the order keeps the symbol the agent wrote.
Resolve_agent_symbol(d, order_decision) ==
  LET position_id == order_decision.position_id
      found == IF order_decision.action = "close" /\ position_id # None
               THEN {x \in QueryPositions(d) : x.id = Val(position_id)} ELSE {}
      position == CHOOSE x \in found : TRUE
  IN [symbol |-> order_decision.symbol,
      side |-> IF found # {} /\ order_decision.side = None
               THEN Some(IF position.side = "long" THEN "sell" ELSE "buy")
               ELSE order_decision.side,
      quantity |-> IF found # {} /\ order_decision.quantity = None
                   THEN Some(position.quantity)
                   ELSE order_decision.quantity]

\* The symbol, side and quantity of the order: a close with a position id
\* takes the symbol of that position, and its side and quantity when the
\* decision leaves them out.
Resolve(d, order_decision) ==
  LET position_id == order_decision.position_id
      found == IF order_decision.action = "close" /\ position_id # None
               THEN {x \in QueryPositions(d) : x.id = Val(position_id)} ELSE {}
      position == CHOOSE x \in found : TRUE
  IN [symbol |-> IF found # {} THEN position.symbol ELSE order_decision.symbol,
      side |-> IF found # {} /\ order_decision.side = None
               THEN Some(IF position.side = "long" THEN "sell" ELSE "buy")
               ELSE order_decision.side,
      quantity |-> IF found # {} /\ order_decision.quantity = None
                   THEN Some(position.quantity)
                   ELSE order_decision.quantity]

\* CheckConstraint("quantity > 0", name="positive_quantity") of the orders
\* table.
positive_quantity(quantity) == quantity > 0

\* A flush that fails inside commit(): the transaction is rolled back, the
\* pending changes are discarded and every object expires.  The response
\* fields and the status "success" that invoke_participant put on the
\* invocation are in the database only if an earlier commit of
\* _process_orders wrote them.
failed_commit(d, invocation_id, exception) ==
  [d EXCEPT !.mem = {},
            !.deleted = {},
            !.raised = exception,
            !.invocations[invocation_id] =
               IF \E i \in 1..Len(d.orders) : d.orders[i].llm_invocation_id = invocation_id
               THEN [@ EXCEPT !.status = "success"]
               ELSE [@ EXCEPT !.response_text = None, !.response_time_ms = None]]

\* order = Order(...); db.add(order); db.commit(): the INSERT of a row with
\* quantity <= 0 (a missing quantity is stored as 0) violates
\* positive_quantity and the commit raises IntegrityError.
AddOrder(d, p, order_decision, resolved, status, rejection_reason, invocation_id) ==
  IF ~positive_quantity(IF resolved.quantity = None THEN 0 ELSE Val(resolved.quantity))
  THEN failed_commit(d, invocation_id, "IntegrityError")
  ELSE commit([d EXCEPT !.orders = Append(d.orders,
     [id |-> Len(d.orders) + 1,
      participant_id |-> p,
      symbol |-> resolved.symbol,
      side |-> IF resolved.side = None THEN "buy" ELSE Val(resolved.side),
      quantity |-> Val(resolved.quantity),
      leverage |-> order_decision.leverage,
      status |-> status,
      rejection_reason |-> rejection_reason,
      executed_price |-> None,
      llm_invocation_id |-> invocation_id])])

\* execution_results.append({...}) for the order handled between d and dd,
\* unless the handling raised; the step is recorded either way.
Report(d, dd, order_decision, oid, passed, rejection_reason) ==
  LET result == [order_id |-> oid,
                 action |-> order_decision.action,
                 symbol |-> dd.orders[oid].symbol,
                 validation_passed |-> passed,
                 rejection_reason |-> rejection_reason,
                 status |-> IF passed THEN dd.orders[oid].status ELSE "rejected",
                 executed_price |-> dd.orders[oid].executed_price]
      step == [decision |-> order_decision,
               order_id |-> oid,
               validation_passed |-> passed,
               raised |-> dd.raised,
               pre |-> Snapshot(d),
               post |-> Snapshot(dd),
               calls |-> SubSeq(dd.calls, Len(d.calls) + 1, Len(dd.calls))]
  IN IF dd.raised # ""
     THEN [dd EXCEPT !.steps = Append(dd.steps, step)]
     ELSE [dd EXCEPT !.results = Append(dd.results, result),
                     !.steps = Append(dd.steps, step)]

\* if is_valid: self.trading_engine.execute_order(...)
Submit(d, oid, order_decision, verdict, quotes) ==
  IF verdict.ok /\ d.raised = ""
  THEN execute_order(d, oid, order_decision.action, order_decision.position_id, quotes)
  ELSE d

\* The loop body from the validation verdict on.
ProcessValidated(d, p, order_decision, resolved, verdict, invocation_id, quotes) ==
  Report(d,
         Submit(AddOrder(d, p, order_decision, resolved,
                         IF verdict.ok THEN "pending" ELSE "rejected",
                         verdict.reason, invocation_id),
                Len(d.orders) + 1, order_decision, verdict, quotes),
         order_decision, Len(d.orders) + 1, verdict.ok, verdict.reason)

\* validate_order divides the notional value of an open by its leverage once
\* the participant is active, the leverage is not above the limit and the
\* symbol has a price.
DividesByZero(d, p, order_decision, resolved, quotes) ==
  /\ d.participants[p].status = "active"
  /\ order_decision.leverage = 0
  /\ order_decision.action = "open"
  /\ get_price(quotes, resolved.symbol) # None

\* The loop body from the resolved symbol, side and quantity on.
ProcessResolved(d, p, order_decision, resolved, invocation_id, quotes) ==
  IF resolved.side = None \/ resolved.quantity = None
  THEN Report(d,
              AddOrder(d, p, order_decision, resolved, "rejected",
                       "Missing required fields: side and/or quantity", invocation_id),
              order_decision, Len(d.orders) + 1, FALSE,
              "Missing required fields: side and/or quantity")
  ELSE IF DividesByZero(d, p, order_decision, resolved, quotes)
  THEN Report(d, Raise(d, "DivisionByZero"), order_decision, Len(d.orders) + 1, FALSE, "")
  ELSE ProcessValidated(d, p, order_decision, resolved,
                        validate_order(d, p, resolved.symbol, Val(resolved.side),
                                       Val(resolved.quantity), order_decision.leverage,
                                       order_decision.action, order_decision.position_id,
                                       quotes),
                        invocation_id, quotes)

\* One iteration of the loop of _process_orders.
ProcessOrder(d, p, order_decision, invocation_id, quotes) ==
  ProcessResolved(d, p, order_decision, Resolve(d, order_decision), invocation_id, quotes)

\* for order_decision in orders: ... ; an exception leaves the loop.
RECURSIVE process_orders(_, _, _, _, _)
process_orders(d, p, decisions, invocation_id, quotes) ==
  IF decisions = <<>> \/ d.raised # "" THEN d
  ELSE process_orders(ProcessOrder(d, p, Head(decisions), invocation_id, quotes),
                      p, Tail(decisions), invocation_id, quotes)

\* Mutant: the failure is recorded without the elapsed time.
TransportFailed_untimed(d, iid) ==
  commit([d EXCEPT !.invocations[iid].status = "error",
                   !.invocations[iid].error_message = "agent call failed"])

\* except Exception around the agent call: the transport failed or the call
\* ran out of time.  The elapsed time is recorded.
TransportFailed(d, iid) ==
  commit([d EXCEPT !.invocations[iid].status = "error",
                   !.invocations[iid].error_message = "agent call failed",
                   !.invocations[iid].response_time_ms = Some("elapsed")])

\* The agent answered: the reply text, the token counts and the elapsed time
\* are put on the invocation before the reply is parsed.
Received(d, iid) ==
  [d EXCEPT !.invocations[iid].response_text = Some("raw"),
            !.invocations[iid].response_time_ms = Some("elapsed")]

\* Mutant: the reply text is not kept on a parse failure.
ParseFailed_drops_text(d, iid) ==
  commit([d EXCEPT !.invocations[iid].response_text = None,
                   !.invocations[iid].status = "invalid_response",
                   !.invocations[iid].error_message = "Failed to parse response"])

\* except Exception around parsing and order processing; the reply text is
\* put back if the invocation does not carry it.
ParseFailed(d, iid) ==
  commit([d EXCEPT !.invocations[iid].response_text = IF @ = None THEN Some("raw") ELSE @,
                   !.invocations[iid].status = "invalid_response",
                   !.invocations[iid].error_message = "Failed to parse response"])

\* Mutant: the orders are processed whatever the decision says.
ShouldProcess_any_decision(reply) == reply.orders # <<>>

\* if parsed_decision.decision == "trade" and parsed_decision.orders
ShouldProcess(reply) == reply.decision = "trade" /\ reply.orders # <<>>

\* The exceptions a commit raises from its flush.  The session is left with
\* a rolled back transaction: until rollback() is called, which no code of
\* the services does, every query and every commit on it raises.
DatabaseErrors == {"IntegrityError"}

\* The end of invoke_participant once the orders were processed, or once
\* processing raised.  After a failed flush the handlers cannot read or
\* write the invocation and the final commit raises.
Conclude(d, iid) ==
  IF d.raised \in DatabaseErrors
  THEN Raise(d, "PendingRollbackError")
  ELSE IF d.raised # ""
  THEN ParseFailed(d, iid)
  ELSE commit([d EXCEPT !.invocations[iid].status = "success",
                        !.invocations[iid].execution_results = Some(d.results)])

\* invoke_participant from the agent call on, d holding the pending
\* invocation record.
Respond(d, p, reply, iid, quotes) ==
  IF reply.kind \in {"error", "timeout"}
  THEN TransportFailed(d, iid)
  ELSE IF reply.kind = "garbage"
  THEN ParseFailed(Received(d, iid), iid)
  ELSE IF ShouldProcess(reply)
  THEN Conclude(process_orders(Received(d, iid), p, reply.orders, iid, quotes), iid)
  ELSE commit([Received(d, iid) EXCEPT !.invocations[iid].status = "success"])

\* Mutant: the status of the participant is not looked at.
invoke_participant_any_status(d, p, reply, quotes) ==
  IF p \notin DOMAIN d.participants
  THEN [d |-> d, returned |-> None]
  ELSE [d |-> Respond(
                commit([d EXCEPT !.invocations = Append(d.invocations,
                          [participant_id |-> p, status |-> "pending",
                           response_text |-> None, response_time_ms |-> None,
                           execution_results |-> None, error_message |-> ""])]),
                p, reply, Len(d.invocations) + 1, quotes),
        returned |-> Some(Len(d.invocations) + 1)]

\* reply.kind: "error" (the agent call raised), "timeout" (the agent call
\* did not answer in time and the client raised), "garbage" (no valid
\* decision can be parsed from the text), "decision" (a parsed LLMResponse).
invoke_participant(d, p, reply, quotes) ==
  IF p \notin DOMAIN d.participants \/ d.participants[p].status # "active"
  THEN [d |-> d, returned |-> None]
  ELSE [d |-> Respond(
                commit([d EXCEPT !.invocations = Append(d.invocations,
                          [participant_id |-> p, status |-> "pending",
                           response_text |-> None, response_time_ms |-> None,
                           execution_results |-> None, error_message |-> ""])]),
                p, reply, Len(d.invocations) + 1, quotes),
        returned |-> Some(Len(d.invocations) + 1)]

(* ---------------------------------------------------------------------- *)
(* Scheduler (app/services/scheduler.py): the mark-to-market job.          *)
(* ---------------------------------------------------------------------- *)
get_multiple_prices(quotes, symbols) == {s \in symbols : get_price(quotes, s) # None}

RECURSIVE RevalueAll(_, _, _)
RevalueAll(acc, todo, quotes) ==
  IF todo = {} THEN acc
  ELSE LET position == CHOOSE x \in todo : TRUE
           rest == todo \ {position}
       IN IF get_price(quotes, position.symbol) # None
          THEN RevalueAll(
                 [d |-> update_position_price(acc.d, position,
                                              Val(get_price(quotes, position.symbol))),
                  portfolios_to_update |-> acc.portfolios_to_update \cup {position.portfolio_id}],
                 rest, quotes)
          ELSE RevalueAll(acc, rest, quotes)

RECURSIVE UpdateAll(_, _)
UpdateAll(d, todo) ==
  IF todo = {} THEN d
  ELSE LET portfolio_id == CHOOSE x \in todo : TRUE
       IN UpdateAll(RefreshEquity(update_portfolio(d, portfolio_id), portfolio_id),
                    todo \ {portfolio_id})

\* The second loop of _update_all_prices, over the portfolios touched by the
\* first.
UpdateTouched(revalued) ==
  [d |-> UpdateAll(revalued.d, revalued.portfolios_to_update),
   updated |-> revalued.portfolios_to_update]

\* Mutant: one missing price stops the revaluation of every position.
update_all_prices_all_or_nothing(d, quotes) ==
  LET held == QueryPositions(d)
      symbols_needed == {x.symbol : x \in held}
      prices == get_multiple_prices(quotes, symbols_needed)
  IN IF held = {} THEN [d |-> d, updated |-> {}]
     ELSE IF prices # symbols_needed THEN [d |-> d, updated |-> {}]
     ELSE UpdateTouched(RevalueAll([d |-> d, portfolios_to_update |-> {}], held, quotes))

update_all_prices(d, quotes) ==
  LET held == QueryPositions(d)
      symbols_needed == {x.symbol : x \in held}
      prices == get_multiple_prices(quotes, symbols_needed)
  IN IF held = {} THEN [d |-> d, updated |-> {}]
     ELSE IF prices = {} THEN [d |-> d, updated |-> {}]
     ELSE UpdateTouched(RevalueAll([d |-> d, portfolios_to_update |-> {}], held, quotes))

(* ---------------------------------------------------------------------- *)
(* Scheduler: the decision job (_invoke_all_participants).                 *)
(* ---------------------------------------------------------------------- *)
\* db.query(Competition).filter(Competition.end_time > now); a competition
\* row is [status, ended], ended standing for end_time <= now.
active_competitions(table) == {c \in DOMAIN table : ~table[c].ended}

\* Participant.competition_id.in_(competition_ids), Participant.status == "active"
active_participants(d, table) ==
  {p \in DOMAIN d.participants :
     /\ CompetitionOf[p] \in active_competitions(table)
     /\ d.participants[p].status = "active"}

\* What one invocation leaves behind for the next one of the same job: the
\* session and the tables, not the locals of the call.
Fresh(d) == [d EXCEPT !.results = <<>>, !.raised = ""]

\* The job's note of one iteration of its loop.
Attempted(acc, p, out) ==
  [d |-> out.d,
   attempted |-> Append(acc.attempted, p),
   outcomes |-> Append(acc.outcomes,
                       IF out.returned = None THEN "none"
                       ELSE IF out.d.raised = "PendingRollbackError" THEN "raised"
                       ELSE out.d.invocations[Val(out.returned)].status)]

\* try: invoke_participant(participant.id) except Exception: error_count += 1.
\* A reply of kind "raise" stands for an exception that leaves
\* invoke_participant before the invocation row is written.  The job has one
\* session for all its participants: once a flush failed in it, the first
\* query of every later invoke_participant raises.
InvokeGuarded(acc, p, reply, quotes) ==
  IF reply.kind = "raise" \/ acc.d.raised = "PendingRollbackError"
  THEN [acc EXCEPT !.attempted = Append(@, p), !.outcomes = Append(@, "raised")]
  ELSE Attempted(acc, p, invoke_participant(Fresh(acc.d), p, reply, quotes))

\* Mutant: the loop is left at the first invocation that did not succeed.
LoopEnds_at_first_failure(acc, todo) ==
  \/ todo = <<>>
  \/ acc.outcomes # <<>> /\ acc.outcomes[Len(acc.outcomes)] # "success"

\* for participant in active_participants: the loop ends with the list.
LoopEnds(acc, todo) == todo = <<>>

RECURSIVE InvokeAll(_, _, _, _)
InvokeAll(acc, todo, replies, quotes) ==
  IF LoopEnds(acc, todo) THEN acc
  ELSE InvokeAll(InvokeGuarded(acc, Head(todo), replies[Head(todo)], quotes),
                 Tail(todo), replies, quotes)

\* The participants of the query in the order the database returns them.
RECURSIVE Listed(_, _)
Listed(order, members) ==
  IF order = <<>> THEN <<>>
  ELSE IF Head(order) \in members
  THEN <<Head(order)>> \o Listed(Tail(order), members)
  ELSE Listed(Tail(order), members)

invoke_all_participants(d, table, order, replies, quotes) ==
  IF active_competitions(table) = {} \/ active_participants(d, table) = {}
  THEN [d |-> d, attempted |-> <<>>, outcomes |-> <<>>]
  ELSE InvokeAll([d |-> d, attempted |-> <<>>, outcomes |-> <<>>],
                 Listed(order, active_participants(d, table)), replies, quotes)

(* ---------------------------------------------------------------------- *)
(* State machine.                                                          *)
(* ---------------------------------------------------------------------- *)
\* The tables as a fresh session sees them.
Work ==
  [participants |-> participants, portfolios |-> portfolios, positions |-> positions,
   orders |-> orders, trades |-> trades, history |-> history,
   invocations |-> invocations, uuid |-> uuid,
   mem |-> {}, deleted |-> {}, calls |-> <<>>, results |-> <<>>, steps |-> <<>>,
   raised |-> ""]

Store(d) ==
  /\ participants' = d.participants
  /\ portfolios' = d.portfolios
  /\ positions' = d.positions
  /\ orders' = d.orders
  /\ trades' = d.trades
  /\ history' = d.history
  /\ invocations' = d.invocations
  /\ uuid' = d.uuid

\* The callers of invoke_participant that may run for one participant at
\* the same time, each with a session of its own: the decision job of the
\* scheduler and the trigger endpoints of the administration.
Closers == {"scheduler", "admin"}

\* Neither job of the scheduler has been started and no invocation is under
\* way.
JobsIdle ==
  [mark |-> [pc |-> "idle", todo |-> {}, updated |-> {}, p |-> "", loaded |-> None,
             computed |-> None, overlapped |-> FALSE],
   decide |-> [pc |-> "idle", p |-> "", iid |-> 0, reply |-> None],
   closers |-> [c \in Closers |->
                  [pc |-> "idle", p |-> "", iid |-> 0, oid |-> 0, decision |-> None,
                   position |-> None, portfolio |-> None, price |-> None,
                   present |-> TRUE]],
   moves |-> 0,
   start |-> None]

\* Positions held when the model starts: rows as open_position writes them,
\* opened at the starting quotes within the capital of their portfolio.
SeedShapes ==
  {x \in [symbol : Symbols, side : {"long", "short"}, quantity : {1, 2}, leverage : {1, 2}] :
     /\ x.quantity <= x.leverage
     /\ x.symbol = "ETHUSDT" => (x.side = "short" /\ x.leverage = 2 /\ x.quantity = 1)}

SeedQuote == [BTCUSDT |-> 100, ETHUSDT |-> 100]

SeedLists ==
  {l \in UNION {[1..n -> SeedShapes] : n \in 0..MaxSeedPositions} :
     \A i \in 1..Len(l) : i > 1 => l[i].side = "long"}

SeedRows(p, shapes, first) ==
  {NewPosition(first + i - 1, p, shapes[i].symbol, shapes[i].side,
               shapes[i].quantity, SeedQuote[shapes[i].symbol], shapes[i].leverage) : i \in 1..Len(shapes)}

OtherSeed == <<[symbol |-> "ETHUSDT", side |-> "long", quantity |-> 1, leverage |-> 2]>>

Init ==
  \E shapes \in SeedLists :
    LET mine == SeedRows("p1", shapes, 1)
        theirs == SeedRows("p2", OtherSeed, Len(shapes) + 1)
    IN /\ SumBy(mine, "margin_required") <= InitialCapital
       /\ positions = mine \cup theirs
       /\ uuid = Len(shapes) + 1
       /\ portfolios = [p \in Parts |->
             Recomputed(create_portfolio(InitialCapital),
                        PositionsOf(mine \cup theirs, p))]
       /\ participants = [p \in Parts |->
             [status |-> "active", current_equity |-> InitialCapital,
              initial_capital |-> InitialCapital, peak_equity |-> InitialCapital,
              total_trades |-> 0, winning_trades |-> 0, losing_trades |-> 0]]
       /\ orders = <<>>
       /\ trades = <<>>
       /\ history = <<>>
       /\ invocations = <<>>
       /\ quote = [s \in Symbols |-> Some(SeedQuote[s])]
       /\ ticks = 0
       /\ competitions = [c \in Competitions |-> [status |-> "active", ended |-> FALSE]]
       /\ jobs = JobsIdle
       /\ last = [op |-> "init"]

\* What an agent may reply.
OpenDecisions ==
  {o \in [action : {"open"}, symbol : Symbols, side : {Some("buy"), Some("sell")},
          quantity : {Some(1), Some(2)}, leverage : {1, 20}, position_id : {None}] :
     /\ o.side = Some("sell") => o.quantity = Some(2)
     /\ o.leverage = 20 => (o.symbol = "ETHUSDT" /\ o.side = Some("buy"))
     /\ o.symbol = "ETHUSDT" => o.quantity = Some(1)}

PositionRefs == {None} \cup {Some(i) : i \in 1..(MaxSeedPositions + 1)}

CloseDecisions ==
  {c \in [action : {"close"}, symbol : {"BTCUSDT"}, side : {None, Some("sell")},
          quantity : {None, Some(1)}, leverage : {1}, position_id : PositionRefs] :
     (c.side = None) = (c.quantity = None)}

ModifyDecisions ==
  {m \in [action : {"increase", "decrease"}, symbol : {"BTCUSDT"}, side : {Some("buy")},
          quantity : {Some(1)}, leverage : {1}, position_id : {None, Some(1)}] :
     (m.action = "increase") = (m.position_id = Some(1))}

Decisions == OpenDecisions \cup CloseDecisions \cup ModifyDecisions

\* In a reply of several orders, the orders before the last one and the
\* last one are drawn from these.
Leading ==
  {o \in Decisions :
     \/ o.action = "close" /\ o.side = None
     \/ o.action = "open" /\ o.leverage > MaxLeverage
     \/ o.action = "open" /\ o.symbol = "BTCUSDT" /\ o.side = Some("buy")
          /\ o.quantity = Some(2)}

Trailing ==
  {o \in Decisions :
     \/ o.action = "close" /\ o.side = None /\ o.position_id \in {Some(1), Some(2)}
     \/ o.action = "open" /\ o.symbol = "BTCUSDT" /\ o.side = Some("buy")
          /\ o.quantity = Some(1)}

OrderLists ==
  {l \in UNION {[1..n -> Decisions] : n \in 0..MaxReplyLen} :
     \A i \in 1..Len(l) :
       /\ i < Len(l) => l[i] \in Leading
       /\ (i > 1 /\ i = Len(l)) => l[i] \in Trailing}

\* A hold decision may still carry orders.
HoldLists == {l \in OrderLists : Len(l) <= 1}

Replies ==
  {[kind |-> "error"], [kind |-> "timeout"], [kind |-> "garbage"]}
  \cup [kind : {"decision"}, decision : {"trade"}, orders : OrderLists]
  \cup [kind : {"decision"}, decision : {"hold"}, orders : HoldLists]

\* The participant whose agent replies in the model; the other one holds its
\* position throughout.
Agents == {"p1"}

\* One call of LLMInvoker.invoke_participant (decision tick or admin trigger).
Invoke(p, reply) ==
  /\ Len(invocations) < MaxInvocations
  /\ \E out \in {invoke_participant(Work, p, reply, quote)} :
        /\ Store(out.d)
        /\ last' = [op |-> "invoke", p |-> p, reply |-> reply,
                    returned |-> out.returned, pre |-> Snapshot(Work),
                    pre_invocations |-> invocations,
                    steps |-> out.d.steps, calls |-> out.d.calls]
  /\ UNCHANGED <<quote, ticks, competitions, jobs>>

\* One run of SchedulerService._update_all_prices.
MarkToMarket ==
  /\ ticks < MaxTicks
  /\ \E out \in {update_all_prices(Work, quote)} :
        /\ Store(out.d)
        /\ last' = [op |-> "mark_to_market", updated |-> out.updated,
                    pre |-> Snapshot(Work), calls |-> out.d.calls]
  /\ ticks' = ticks + 1
  /\ UNCHANGED <<quote, competitions, jobs>>

\* One call of PortfolioManager.check_and_liquidate, a public operation of
\* the portfolio manager that no job of the scheduler calls.
CheckAndLiquidate(p) ==
  /\ \E out \in {check_and_liquidate(Work, p, quote)} :
        /\ Store(out.d)
        /\ last' = [op |-> "check_and_liquidate", p |-> p, result |-> out.result,
                    closed |-> out.closed, pre |-> Snapshot(Work),
                    calls |-> out.d.calls]
  /\ UNCHANGED <<quote, ticks, competitions, jobs>>

\* The market moves, or the feed stops answering for a symbol.
QuoteChange(s, q) ==
  /\ quote[s] # q
  /\ quote' = [quote EXCEPT ![s] = q]
  /\ last' = [op |-> "quote"]
  /\ UNCHANGED <<participants, portfolios, positions, orders, trades, history,
                 invocations, uuid, ticks, competitions, jobs>>

Next ==
  \/ \E p \in Agents, reply \in Replies : Invoke(p, reply)
  \/ MarkToMarket
  \/ \E p \in Parts : CheckAndLiquidate(p)
  \/ \E s \in Symbols : \E q \in {None} \cup {Some(v) : v \in Prices[s]} : QuoteChange(s, q)

Spec == Init /\ [][Next]_vars

(* ---------------------------------------------------------------------- *)
(* TradingEngine.validate_order called on its own: the participant may be  *)
(* in any status and the feed in any state.                                *)
(* ---------------------------------------------------------------------- *)
Statuses == {"active", "liquidated", "disqualified"}

\* participant.status is written (liquidation, administration).
StatusChange(p, status) ==
  /\ participants[p].status # status
  /\ participants' = [participants EXCEPT ![p].status = status]
  /\ last' = [op |-> "status"]
  /\ UNCHANGED <<portfolios, positions, orders, trades, history, invocations,
                 uuid, quote, ticks, competitions, jobs>>

ValidateOrder(p, symbol, side, quantity, leverage, action, position_id) ==
  /\ last' = [op |-> "validate_order", p |-> p, symbol |-> symbol,
              quantity |-> quantity, leverage |-> leverage, action |-> action,
              position_id |-> position_id,
              verdict |-> validate_order(Work, p, symbol, side, quantity, leverage,
                                         action, position_id, quote)]
  /\ UNCHANGED <<participants, portfolios, positions, orders, trades, history,
                 invocations, uuid, quote, ticks, competitions, jobs>>

NextValidate ==
  \/ \E p \in Agents, symbol \in Symbols, quantity \in {1, 2}, leverage \in {1, 2, 20} :
       \E action \in {"open", "close", "increase", "decrease"}, position_id \in PositionRefs :
         ValidateOrder(p, symbol, "buy", quantity, leverage, action, position_id)
  \/ \E p \in Agents, status \in Statuses : StatusChange(p, status)
  \/ \E s \in Symbols : \E q \in {None} \cup {Some(v) : v \in Prices[s]} : QuoteChange(s, q)

SpecValidate == Init /\ [][NextValidate]_vars

(* ---------------------------------------------------------------------- *)
(* The decision job of the scheduler over competitions in any state, and   *)
(* invoke_participant called for any participant id.                       *)
(* ---------------------------------------------------------------------- *)
\* Competitions as registered (pending), started, or cancelled.
InitTick ==
  \E shapes \in SeedLists :
    LET mine == SeedRows("p1", shapes, 1)
        theirs == SeedRows("p2", OtherSeed, Len(shapes) + 1)
    IN /\ Len(shapes) <= 1
       /\ positions = mine \cup theirs
       /\ uuid = Len(shapes) + 1
       /\ portfolios = [p \in Parts |->
             Recomputed(create_portfolio(InitialCapital),
                        PositionsOf(mine \cup theirs, p))]
       /\ participants = [p \in Parts |->
             [status |-> "active", current_equity |-> InitialCapital,
              initial_capital |-> InitialCapital, peak_equity |-> InitialCapital,
              total_trades |-> 0, winning_trades |-> 0, losing_trades |-> 0]]
       /\ orders = <<>>
       /\ trades = <<>>
       /\ history = <<>>
       /\ invocations = <<>>
       /\ quote = [s \in Symbols |-> Some(SeedQuote[s])]
       /\ ticks = 0
       /\ competitions \in [Competitions ->
                              [status : {"pending", "active", "cancelled"}, ended : {FALSE}]]
       /\ jobs = JobsIdle
       /\ last = [op |-> "init"]

\* POST /competitions/{id}/start
start_competition(c) ==
  /\ competitions[c].status = "pending"
  /\ competitions' = [competitions EXCEPT ![c].status = "active"]
  /\ last' = [op |-> "start_competition"]
  /\ UNCHANGED <<participants, portfolios, positions, orders, trades, history,
                 invocations, uuid, quote, ticks, jobs>>

\* POST /competitions/{id}/stop
stop_competition(c) ==
  /\ competitions[c].status = "active"
  /\ competitions' = [competitions EXCEPT ![c].status = "completed"]
  /\ last' = [op |-> "stop_competition"]
  /\ UNCHANGED <<participants, portfolios, positions, orders, trades, history,
                 invocations, uuid, quote, ticks, jobs>>

\* The clock passes the end_time of a competition.
EndTimePasses(c) ==
  /\ ~competitions[c].ended
  /\ competitions' = [competitions EXCEPT ![c].ended = TRUE]
  /\ last' = [op |-> "end_time"]
  /\ UNCHANGED <<participants, portfolios, positions, orders, trades, history,
                 invocations, uuid, quote, ticks, jobs>>

\* An id that names no participant.
Strangers == {"p0"}

\* Replies of the agents during the job, and what else may happen to an
\* invocation (an exception that escapes invoke_participant).
TriggerReplies ==
  {[kind |-> "error"], [kind |-> "garbage"]}
  \cup [kind : {"decision"}, decision : {"hold"}, orders : {<<>>}]
  \cup [kind : {"decision"}, decision : {"trade"},
        orders : {<<o>> : o \in {x \in Trailing : x.position_id \in {None, Some(1)}}}]

TickReplies == TriggerReplies \cup {[kind |-> "raise"]}

\* One run of SchedulerService._invoke_all_participants.
DecisionTick(order, replies) ==
  /\ Len(invocations) < MaxInvocations
  /\ \E out \in {invoke_all_participants(Work, competitions, order, replies, quote)} :
        /\ Store(out.d)
        /\ last' = [op |-> "decision_tick", attempted |-> out.attempted,
                    outcomes |-> out.outcomes, replies |-> replies,
                    pre |-> Snapshot(Work)]
  /\ UNCHANGED <<quote, ticks, competitions, jobs>>

\* The competitions and the participants change state, and then the job or
\* one invocation runs.
Settling == last.op \notin {"decision_tick", "invoke"}

NextTick ==
  \/ /\ Settling
     /\ \E order \in {<<"p1", "p2">>, <<"p2", "p1">>}, replies \in [Parts -> TickReplies] :
          DecisionTick(order, replies)
  \/ /\ Settling
     /\ \E p \in Parts \cup Strangers, reply \in TriggerReplies : Invoke(p, reply)
  \/ /\ Settling
     /\ \E c \in Competitions : start_competition(c)
  \/ /\ Settling
     /\ \E c \in Competitions : stop_competition(c)
  \/ /\ Settling
     /\ \E c \in Competitions : EndTimePasses(c)
  \/ /\ Settling
     /\ \E p \in Parts, status \in Statuses : StatusChange(p, status)

SpecTick == InitTick /\ [][NextTick]_vars

(* ---------------------------------------------------------------------- *)
(* The mark-to-market job run twice in a row on the same quotes.           *)
(* ---------------------------------------------------------------------- *)
\* The job runs again before anything else has happened.
MarkToMarketAgain ==
  /\ last.op = "mark_to_market"
  /\ \E out \in {update_all_prices(Work, quote)} :
        /\ Store(out.d)
        /\ last' = [op |-> "mark_to_market_again", updated |-> out.updated,
                    pre |-> Snapshot(Work), calls |-> out.d.calls]
  /\ UNCHANGED <<quote, ticks, competitions, jobs>>

\* Orders and quote changes come first, then the job and its second run.
NextMark ==
  \/ /\ ticks = 0
     /\ \E p \in Agents, reply \in Replies : Invoke(p, reply)
  \/ /\ ticks = 0
     /\ \E s \in Symbols : \E q \in {None} \cup {Some(v) : v \in Prices[s]} : QuoteChange(s, q)
  \/ MarkToMarket
  \/ MarkToMarketAgain

SpecMark == Init /\ [][NextMark]_vars

(* ---------------------------------------------------------------------- *)
(* PortfolioManager.update_participant_equity called with any equities.    *)
(* ---------------------------------------------------------------------- *)
Equities == {-20, 50, 100, 120, 150}

SuppliedSoFar == IF last.op = "update_participant_equity" THEN last.supplied ELSE <<>>

UpdateEquity(p, new_equity) ==
  /\ Len(SuppliedSoFar) < MaxUpdates
  /\ \E out \in {update_participant_equity(Work, p, new_equity)} : Store(out)
  /\ last' = [op |-> "update_participant_equity", p |-> p, new_equity |-> new_equity,
              supplied |-> Append(SuppliedSoFar, new_equity),
              pre |-> Snapshot(Work)]
  /\ UNCHANGED <<quote, ticks, competitions, jobs>>

NextEquity == \E new_equity \in Equities : UpdateEquity("p1", new_equity)

SpecEquity == Init /\ [][NextEquity]_vars

(* ---------------------------------------------------------------------- *)
(* The two jobs of the scheduler running at the same time, each in its own *)
(* thread with its own session.  A job is cut where its session commits    *)
(* and where it waits: the mark-to-market job after its first loop and     *)
(* between the reads and the write of update_portfolio, the decision job   *)
(* at the call of the agent.                                               *)
(* ---------------------------------------------------------------------- *)
JobNames == {"mark", "decide"}

\* The jobs that hold a worker thread of the executor.
Running == {j \in JobNames : jobs[j].pc \notin {"idle", "done"}}

\* Mutant: the executor runs one job at a time.
CanStart_one_at_a_time(job) == jobs[job].pc = "idle" /\ Running = {}

\* add_job(id="update_prices"), add_job(id="invoke_llms"): each job has its
\* own trigger and one instance at a time; the thread pool of the executor
\* has a free worker as long as the other job is the only one running.
CanStart(job) == jobs[job].pc = "idle" /\ Running \subseteq JobNames \ {job}

StartTables ==
  [participants |-> participants, portfolios |-> portfolios, positions |-> positions,
   orders |-> orders, trades |-> trades, history |-> history,
   invocations |-> invocations, uuid |-> uuid]

Started == IF jobs.start = None THEN Some(StartTables) ELSE jobs.start

\* The rows the first loop of _update_all_prices leaves: each position
\* whose symbol has a price revalued at it and committed.
Repriced(held, quotes) ==
  {IF get_price(quotes, x.symbol) # None
   THEN Revalued(x, Val(get_price(quotes, x.symbol)))
   ELSE x : x \in held}

\* portfolios_to_update when the first loop ends.
Touched(held, quotes) ==
  {x.portfolio_id : x \in {y \in held : get_price(quotes, y.symbol) # None}}

\* _update_all_prices up to the end of its first loop.
MarkRevalue ==
  /\ CanStart("mark")
  /\ positions' = IF get_multiple_prices(quote, {x.symbol : x \in positions}) = {}
                  THEN positions
                  ELSE Repriced(positions, quote)
  /\ \E touched \in {IF get_multiple_prices(quote, {x.symbol : x \in positions}) = {}
                     THEN {}
                     ELSE Touched(positions, quote)} :
        jobs' = [jobs EXCEPT
           !.start = Started,
           !.mark = [@ EXCEPT
              !.pc = IF touched = {} THEN "done" ELSE "recompute",
              !.todo = touched,
              !.updated = touched,
              !.overlapped = jobs.decide.pc = "waiting"]]
  /\ last' = [op |-> "mark_revalue"]
  /\ UNCHANGED <<participants, portfolios, orders, trades, history, invocations,
                 uuid, quote, ticks, competitions>>

\* update_portfolio up to the assignments: the portfolio row and its
\* positions are read and the aggregates computed.
MarkRead ==
  /\ jobs.mark.pc = "recompute"
  /\ \E p \in {CHOOSE x \in jobs.mark.todo : TRUE} :
        jobs' = [jobs EXCEPT
           !.mark = [@ EXCEPT
              !.pc = "write",
              !.p = p,
              !.loaded = Some(portfolios[p]),
              !.computed = Some(Recomputed(portfolios[p], PositionsOf(positions, p)))]]
  /\ last' = [op |-> "mark_read"]
  /\ UNCHANGED <<participants, portfolios, positions, orders, trades, history,
                 invocations, uuid, quote, ticks, competitions>>

\* The UPDATE sent by the commit sets the columns whose assigned value
\* differs from the value the session loaded; the other columns keep what
\* the row holds.
Written(current, loaded, computed) ==
  [f \in DOMAIN current |-> IF computed[f] # loaded[f] THEN computed[f] ELSE current[f]]

\* update_portfolio from the commit on (the UPDATE, the refresh, the
\* history row), then update_participant_equity with the refreshed equity.
MarkWrite ==
  /\ jobs.mark.pc = "write"
  /\ \E p \in {jobs.mark.p} :
     \E written \in {commit([Work EXCEPT !.portfolios[p] =
                        Written(portfolios[p], Val(jobs.mark.loaded),
                                Val(jobs.mark.computed))])} :
     \E recorded \in {record_portfolio_history(written, p)} :
     \E logged \in {LogCall(recorded, p)} :
     \E out \in {RefreshEquity(logged, p)} :
        Store(out)
  /\ jobs' = [jobs EXCEPT
        !.mark = [@ EXCEPT
           !.pc = IF jobs.mark.todo = {jobs.mark.p} THEN "done" ELSE "recompute",
           !.todo = @ \ {jobs.mark.p},
           !.loaded = None,
           !.computed = None]]
  /\ last' = [op |-> "mark_write"]
  /\ UNCHANGED <<quote, ticks, competitions>>

\* invoke_participant up to the call of the agent: the pending invocation
\* is committed and the thread waits for the reply.
DecideStart(p) ==
  /\ CanStart("decide")
  /\ participants[p].status = "active"
  /\ Len(invocations) < MaxInvocations
  /\ \E out \in {commit([Work EXCEPT !.invocations = Append(Work.invocations,
                          [participant_id |-> p, status |-> "pending",
                           response_text |-> None, response_time_ms |-> None,
                           execution_results |-> None, error_message |-> ""])])} :
        Store(out)
  /\ jobs' = [jobs EXCEPT
        !.start = Started,
        !.decide = [@ EXCEPT !.pc = "waiting", !.p = p, !.iid = Len(invocations) + 1]]
  /\ last' = [op |-> "decide_start"]
  /\ UNCHANGED <<quote, ticks, competitions>>

\* The agent answers and invoke_participant runs to its end.
DecideReply(reply) ==
  /\ jobs.decide.pc = "waiting"
  /\ \E out \in {Respond(Work, jobs.decide.p, reply, jobs.decide.iid, quote)} :
        Store(out)
  /\ jobs' = [jobs EXCEPT !.decide = [@ EXCEPT !.pc = "done", !.reply = Some(reply)]]
  /\ last' = [op |-> "decide_reply"]
  /\ UNCHANGED <<quote, ticks, competitions>>

\* The market moves before the jobs run.
NextJobs ==
  \/ /\ Running = {} /\ jobs.start = None
     /\ \E s \in Symbols : \E q \in {None} \cup {Some(v) : v \in Prices[s]} :
           QuoteChange(s, q)
  \/ MarkRevalue
  \/ MarkRead
  \/ MarkWrite
  \/ \E p \in Agents : DecideStart(p)
  \/ \E reply \in TriggerReplies : DecideReply(reply)

SpecJobs == Init /\ [][NextJobs]_vars

\* The scheduler thread starts a due job and a worker thread runs it to its
\* end; nothing makes the agent answer.
SpecJobsFair ==
  SpecJobs /\ WF_vars(MarkRevalue) /\ WF_vars(MarkRead) /\ WF_vars(MarkWrite)

(* ---------------------------------------------------------------------- *)
(* Properties.                                                             *)
(* ---------------------------------------------------------------------- *)
Handled == last.op \in {"invoke", "mark_to_market", "check_and_liquidate"}

StepsOfLast == IF last.op = "invoke" THEN {last.steps[i] : i \in 1..Len(last.steps)} ELSE {}

\* The position a step's decision refers to, as it was before the step.
TargetOf(step) ==
  {x \in step.pre.positions :
     step.decision.position_id # None /\ x.id = Val(step.decision.position_id)}

\* A close order that passed validation and found a price for its position.
ClosesAt(step, pos, c) ==
  /\ step.decision.action = "close"
  /\ step.validation_passed
  /\ pos \in TargetOf(step)
  /\ quote[pos.symbol] = Some(c)

\* An open order that passed validation; p is the price it executes at.
OpensAt(step, p) ==
  /\ step.decision.action = "open"
  /\ step.validation_passed
  /\ quote[step.decision.symbol] = Some(p)

PnlAt(pos, c) ==
  IF pos.side = "long" THEN pos.quantity * (c - pos.entry_price)
  ELSE pos.quantity * (pos.entry_price - c)

Identities(portfolio, held) ==
  /\ portfolio.margin_used = SumBy(held, "margin_required")
  /\ portfolio.unrealized_pnl = SumBy(held, "unrealized_pnl")
  /\ portfolio.equity = portfolio.cash_balance + portfolio.unrealized_pnl
  /\ portfolio.margin_available = portfolio.equity - portfolio.margin_used
  /\ portfolio.total_pnl = portfolio.realized_pnl + portfolio.unrealized_pnl
  /\ portfolio.margin_used = 0 => portfolio.margin_level = None
  /\ portfolio.margin_used # 0 =>
       /\ portfolio.margin_level # None
       /\ FracEq(Val(portfolio.margin_level),
                 Frac(portfolio.equity * 100, portfolio.margin_used))

\* C1: when any update_portfolio call returns, the portfolio's aggregates
\* are the sums over the positions the portfolio then holds and the
\* accounting identities hold.
C1_IdentitiesAfterEveryUpdate ==
  Handled =>
    \A i \in 1..Len(last.calls) :
      Identities(last.calls[i].portfolio, last.calls[i].positions)

\* C2: cash_balance is the initial capital plus the cumulative realized
\* P&L; an open and a mark-to-market tick leave it alone, and a step that
\* changes it is an executed close or a liquidation that closed positions.
C2_ReserveOnlyCash ==
  /\ \A p \in Parts :
       portfolios[p].cash_balance = InitialCapital + portfolios[p].realized_pnl
  /\ last.op = "mark_to_market" =>
       \A p \in Parts : portfolios[p].cash_balance = last.pre.portfolios[p].cash_balance
  /\ last.op = "check_and_liquidate" =>
       \A p \in Parts :
         portfolios[p].cash_balance # last.pre.portfolios[p].cash_balance
           => (p = last.p /\ last.closed # {})
  /\ \A step \in StepsOfLast : \A p \in Parts :
       LET before == step.pre.portfolios[p].cash_balance
           after == step.post.portfolios[p].cash_balance
       IN /\ step.decision.action = "open" => after = before
          /\ after # before =>
               /\ p = last.p
               /\ \E pos \in TargetOf(step) : \E c \in Prices[pos.symbol] :
                    /\ ClosesAt(step, pos, c)
                    /\ after = before + PnlAt(pos, c)
                    /\ pos.id \notin {x.id : x \in step.post.positions}

C2_Witness ==
  \E step \in StepsOfLast :
    /\ step.decision.action = "close"
    /\ step.post.portfolios[last.p].cash_balance # step.pre.portfolios[last.p].cash_balance
    /\ portfolios[last.p].realized_pnl < 0

\* C3: a validated open order executed at price p leaves a new position
\* (long for buy, short for sell, entry = current = p, no unrealized P&L,
\* margin q*p/L), raises margin_used and lowers margin_available by that
\* margin, keeps equity, marks the order executed and writes one open trade.
C3_OpenCreatesPosition ==
  \A step \in StepsOfLast : \A p \in Prices[step.decision.symbol] :
    OpensAt(step, p) =>
      LET me == last.p
          q == Val(step.decision.quantity)
          margin == (q * p) \div step.decision.leverage
          new == {x \in step.post.positions : x.id \notin {y.id : y \in step.pre.positions}}
          written == SubSeq(step.post.trades, Len(step.pre.trades) + 1, Len(step.post.trades))
      IN /\ Cardinality(new) = 1
         /\ \A x \in new :
              /\ x.side = (IF step.decision.side = Some("buy") THEN "long" ELSE "short")
              /\ x.entry_price = p /\ x.current_price = p
              /\ x.unrealized_pnl = 0
              /\ x.margin_required = margin
         /\ step.post.portfolios[me].margin_used = step.pre.portfolios[me].margin_used + margin
         /\ step.post.portfolios[me].margin_available
              = step.pre.portfolios[me].margin_available - margin
         /\ step.post.portfolios[me].equity = step.pre.portfolios[me].equity
         /\ step.post.orders[step.order_id].status = "executed"
         /\ Len(written) = 1
         /\ written[1].action = "open" /\ written[1].margin_impact = margin

\* C4: a close order executed at price c on a position (q, e) realizes
\* q*(c-e) for a long and q*(e-c) for a short; the position is gone, cash
\* and cumulative realized P&L grow by that amount, margin_used falls by the
\* position's margin_required and one close trade is written with no
\* position reference, margin_impact = -margin_required and that P&L.
C4_CloseRealizesPnl ==
  \A step \in StepsOfLast : \A pos \in TargetOf(step) : \A c \in Prices[pos.symbol] :
    ClosesAt(step, pos, c) =>
      LET me == last.p
          pnl == PnlAt(pos, c)
          written == SubSeq(step.post.trades, Len(step.pre.trades) + 1, Len(step.post.trades))
      IN /\ pos.id \notin {x.id : x \in step.post.positions}
         /\ step.post.portfolios[me].cash_balance = step.pre.portfolios[me].cash_balance + pnl
         /\ step.post.portfolios[me].realized_pnl = step.pre.portfolios[me].realized_pnl + pnl
         /\ step.post.portfolios[me].margin_used
              = step.pre.portfolios[me].margin_used - pos.margin_required
         /\ step.post.orders[step.order_id].status = "executed"
         /\ Len(written) = 1
         /\ written[1].action = "close"
         /\ written[1].order_id = step.order_id
         /\ written[1].position_id = None
         /\ written[1].margin_impact = -pos.margin_required
         /\ written[1].realized_pnl = Some(pnl)

C4_Witness ==
  \E step \in StepsOfLast : \E pos \in TargetOf(step) : \E c \in Prices[pos.symbol] :
    /\ ClosesAt(step, pos, c)
    /\ pos.side = "short"
    /\ PnlAt(pos, c) < 0
    /\ Len(trades) = 1 /\ trades[1].realized_pnl = Some(PnlAt(pos, c))

\* The state a step left, as the work record of a session.
WorkFrom(snapshot) ==
  [Work EXCEPT !.participants = snapshot.participants,
               !.portfolios = snapshot.portfolios,
               !.positions = snapshot.positions,
               !.orders = snapshot.orders,
               !.trades = snapshot.trades]

CloseOf(pos) ==
  [action |-> "close", symbol |-> pos.symbol, side |-> None, quantity |-> None,
   leverage |-> 1, position_id |-> Some(pos.id)]

\* C5: a validated open followed by a close of the new position at the same
\* price realizes 0 and brings cash_balance, margin_used and equity back to
\* their values before the open.
C5_RoundTrip ==
  \A step \in StepsOfLast : \A p \in Prices[step.decision.symbol] :
    OpensAt(step, p) =>
      \E pos \in {x \in step.post.positions : x.id \notin {y.id : y \in step.pre.positions}} :
        LET me == last.p
            after == ProcessOrder(WorkFrom(step.post), me, CloseOf(pos), 0, quote)
        IN /\ Len(after.trades) = Len(step.post.trades) + 1
           /\ after.trades[Len(after.trades)].realized_pnl = Some(0)
           /\ after.portfolios[me].cash_balance = step.pre.portfolios[me].cash_balance
           /\ after.portfolios[me].margin_used = step.pre.portfolios[me].margin_used
           /\ after.portfolios[me].equity = step.pre.portfolios[me].equity

\* C6: an executed close adds 1 to total_trades, 1 to winning_trades iff its
\* realized P&L is positive, 1 to losing_trades iff it is negative; any
\* other order (an open, a rejected order) leaves the three counters alone.
C6_TradeCounters ==
  \A step \in StepsOfLast :
    LET before == step.pre.participants[last.p]
        after == step.post.participants[last.p]
        closing == {pc \in TargetOf(step) \X Prices["BTCUSDT"] : ClosesAt(step, pc[1], pc[2])}
                   \cup {pc \in TargetOf(step) \X Prices["ETHUSDT"] : ClosesAt(step, pc[1], pc[2])}
    IN /\ \A pc \in closing :
            LET pnl == PnlAt(pc[1], pc[2])
            IN /\ after.total_trades = before.total_trades + 1
               /\ after.winning_trades = before.winning_trades + (IF pnl > 0 THEN 1 ELSE 0)
               /\ after.losing_trades = before.losing_trades + (IF pnl < 0 THEN 1 ELSE 0)
       /\ closing = {} =>
            /\ after.total_trades = before.total_trades
            /\ after.winning_trades = before.winning_trades
            /\ after.losing_trades = before.losing_trades

C6_Witness ==
  \E step \in StepsOfLast : \E pos \in TargetOf(step) : \E c \in Prices[pos.symbol] :
    /\ ClosesAt(step, pos, c)
    /\ PnlAt(pos, c) = 0
    /\ participants[last.p].total_trades = 1
    /\ participants[last.p].winning_trades = 0
    /\ participants[last.p].losing_trades = 0

\* equity / margin_used * 100 < (maintenance_margin_pct / (100 / max_leverage)) * 100
BelowThreshold(portfolio) ==
  portfolio.equity * 100 < MaintenanceMarginPct * MaxLeverage * portfolio.margin_used

Quoted(table) == \A x \in table : quote[x.symbol] # None

\* C7: for an active participant with margin_used > 0 whose margin level is
\* below the liquidation threshold (every held symbol being quoted),
\* check_and_liquidate returns true, closes all positions of the portfolio,
\* sets the status to liquidated and leaves margin_used = 0.
C7_LiquidationClearsMargin ==
  last.op = "check_and_liquidate" =>
    LET me == last.p
        before == last.pre.portfolios[me]
    IN (/\ last.pre.participants[me].status = "active"
        /\ before.margin_used > 0
        /\ BelowThreshold(before)
        /\ Quoted(PositionsOf(last.pre.positions, me)))
       => /\ last.result = TRUE
          /\ PositionsOf(positions, me) = {}
          /\ participants[me].status = "liquidated"
          /\ portfolios[me].margin_used = 0

\* C8: a liquidation adds to cash_balance and to realized_pnl exactly the
\* sum of the realized P&L of the positions it closed, each once, and it
\* closes every position of the portfolio whose symbol is quoted.
C8_LiquidationCreditsPnl ==
  (last.op = "check_and_liquidate" /\ last.result) =>
    LET me == last.p
        held == PositionsOf(last.pre.positions, me)
        gone == {x \in held : x.id \notin {y.id : y \in positions}}
        PnlNow(x) == IF quote[x.symbol] = None THEN 0 ELSE PnlAt(x, Val(quote[x.symbol]))
        total == SumBy({[id |-> x.id, realized_pnl |-> PnlNow(x)] : x \in gone},
                       "realized_pnl")
    IN /\ gone = {x \in held : quote[x.symbol] # None}
       /\ portfolios[me].cash_balance = last.pre.portfolios[me].cash_balance + total
       /\ portfolios[me].realized_pnl = last.pre.portfolios[me].realized_pnl + total
       /\ participants[me].status = "liquidated"

C8_Witness ==
  /\ last.op = "check_and_liquidate"
  /\ last.result
  /\ Cardinality(PositionsOf(last.pre.positions, last.p)) = 2
  /\ PositionsOf(positions, last.p) = {}
  /\ portfolios[last.p].realized_pnl < 0
  /\ portfolios[last.p].cash_balance # last.pre.portfolios[last.p].cash_balance

\* C9: check_and_liquidate returns false and changes nothing when the
\* participant is not active, or margin_used <= 0, or the margin level is
\* at or above the liquidation threshold.
C9_NoLiquidationFrame ==
  last.op = "check_and_liquidate" =>
    LET me == last.p
        before == last.pre.portfolios[me]
    IN (\/ last.pre.participants[me].status # "active"
        \/ before.margin_used <= 0
        \/ ~BelowThreshold(before))
       => /\ last.result = FALSE
          /\ participants = last.pre.participants
          /\ portfolios = last.pre.portfolios
          /\ positions = last.pre.positions
          /\ trades = last.pre.trades
          /\ Len(last.calls) = 0

C9_Witness ==
  /\ last.op = "check_and_liquidate"
  /\ last.result = FALSE
  /\ participants[last.p].status = "active"
  /\ portfolios[last.p].margin_used > 0
  /\ portfolios[last.p].equity * 100
       = MaintenanceMarginPct * MaxLeverage * portfolios[last.p].margin_used

\* C10: when a mark-to-market tick has completed, no participant whose
\* positions it revalued is still active with a margin level below the
\* liquidation threshold.
C10_TickLiquidates ==
  last.op = "mark_to_market" =>
    \A p \in last.updated :
      ~(/\ participants[p].status = "active"
        /\ portfolios[p].margin_used > 0
        /\ BelowThreshold(portfolios[p]))

\* C11: validate_order answers with the first rule that fails, in the order
\* participant not active, leverage above the maximum, then for an open: no
\* price for the symbol, then quantity*price/leverage > margin_available;
\* an open needing exactly margin_available, and any open passing the four
\* rules, is accepted with no reason.
C11_ValidationOrder ==
  last.op = "validate_order" =>
    LET price == quote[last.symbol]
        available == portfolios[last.p].margin_available
    IN /\ participants[last.p].status # "active"
            => last.verdict = [ok |-> FALSE, reason |-> "Participant is not active"]
       /\ (participants[last.p].status = "active" /\ last.leverage > MaxLeverage)
            => last.verdict = [ok |-> FALSE, reason |-> "Leverage exceeds max"]
       /\ (participants[last.p].status = "active" /\ last.leverage <= MaxLeverage
           /\ last.action = "open")
            => last.verdict =
                 IF price = None
                 THEN [ok |-> FALSE, reason |-> "Could not fetch price"]
                 ELSE IF last.quantity * Val(price) > available * last.leverage
                 THEN [ok |-> FALSE, reason |-> "Insufficient margin"]
                 ELSE [ok |-> TRUE, reason |-> ""]

C11_Witness ==
  /\ last.op = "validate_order"
  /\ last.action = "open"
  /\ quote[last.symbol] # None
  /\ portfolios[last.p].margin_available > 0
  /\ last.quantity * Val(quote[last.symbol])
       = portfolios[last.p].margin_available * last.leverage
  /\ last.verdict.ok

\* The invocation record the last invoke_participant returned.
InvocationOfLast == invocations[Val(last.returned)]

Invoked == last.op = "invoke" /\ last.returned # None

\* The tables other than the invocations are as they were before the call.
Untouched(before, after) ==
  /\ after.orders = before.orders
  /\ after.trades = before.trades
  /\ after.positions = before.positions
  /\ after.portfolios = before.portfolios
  /\ after.participants = before.participants

\* C12: an order that fails validation is stored rejected with a reason, is
\* reported in the invocation's execution_results with validation_passed
\* false, creates no position and no trade, leaves the portfolios and the
\* participants' counters alone, and the orders after it in the reply are
\* still processed.
C12_RejectedOrderReported ==
  Invoked =>
    \A i \in 1..Len(last.steps) :
      ~last.steps[i].validation_passed =>
        LET step == last.steps[i]
            order == step.post.orders[step.order_id]
        IN /\ step.order_id \in 1..Len(step.post.orders)
           /\ order.status = "rejected"
           /\ order.rejection_reason # ""
           /\ step.post.positions = step.pre.positions
           /\ step.post.trades = step.pre.trades
           /\ step.post.portfolios = step.pre.portfolios
           /\ step.post.participants = step.pre.participants
           /\ i < Len(last.reply.orders) => Len(last.steps) > i
           /\ InvocationOfLast.execution_results # None
           /\ \E k \in 1..Len(Val(InvocationOfLast.execution_results)) :
                LET result == Val(InvocationOfLast.execution_results)[k]
                IN result.order_id = step.order_id /\ ~result.validation_passed

\* What the participants other than p own.
OthersOf(snapshot, p) ==
  [positions |-> {x \in snapshot.positions : x.participant_id # p},
   portfolios |-> [q \in Parts \ {p} |-> snapshot.portfolios[q]],
   participants |-> [q \in Parts \ {p} |-> snapshot.participants[q]]]

\* C13: a close, increase or decrease order passes validation only if it
\* names a position, the position exists and it belongs to the ordering
\* participant; an invocation of one participant leaves the positions,
\* portfolios and counters of every other participant as they were.
C13_OnlyOwnPositions ==
  Invoked =>
    /\ \A step \in StepsOfLast :
         (step.decision.action \in {"close", "increase", "decrease"}
          /\ step.validation_passed) =>
           /\ step.decision.position_id # None
           /\ TargetOf(step) # {}
           /\ \A pos \in TargetOf(step) : pos.participant_id = last.p
    /\ OthersOf(Snapshot(Work), last.p) = OthersOf(last.pre, last.p)

C13_Witness ==
  /\ Invoked
  /\ \E step \in StepsOfLast : \E pos \in TargetOf(step) :
       /\ step.decision.action = "close"
       /\ pos.participant_id # last.p
       /\ ~step.validation_passed
       /\ step.post.orders[step.order_id].rejection_reason
            = "Position does not belong to this participant"
       /\ pos \in positions

\* C14: for a close order naming an existing position, the order row
\* carries the position's symbol whatever symbol the reply gave, a missing
\* side becomes sell for a long and buy for a short, a missing quantity
\* becomes the position's quantity, the price is looked up under the
\* position's symbol, and the trade carries that symbol and that price: the
\* position is closed at the price of its own symbol.
C14_CloseUsesStoredSymbol ==
  Invoked =>
    \A step \in StepsOfLast : \A pos \in TargetOf(step) :
      step.decision.action = "close" =>
        LET order == step.post.orders[step.order_id]
            made == SubSeq(step.post.trades, Len(step.pre.trades) + 1,
                           Len(step.post.trades))
        IN /\ order.symbol = pos.symbol
           /\ step.decision.side = None =>
                order.side = (IF pos.side = "long" THEN "sell" ELSE "buy")
           /\ step.decision.side # None => order.side = Val(step.decision.side)
           /\ step.decision.quantity = None => order.quantity = pos.quantity
           /\ step.decision.quantity # None => order.quantity = Val(step.decision.quantity)
           /\ (step.validation_passed /\ quote[pos.symbol] = None) =>
                /\ order.status = "rejected"
                /\ made = <<>>
           /\ (step.validation_passed /\ quote[pos.symbol] # None) =>
                /\ order.status = "executed"
                /\ order.executed_price = quote[pos.symbol]
                /\ Len(made) = 1
                /\ made[1].symbol = pos.symbol
                /\ made[1].price = Val(quote[pos.symbol])
                /\ made[1].realized_pnl = Some(PnlAt(pos, Val(quote[pos.symbol])))
                /\ pos.id \notin {x.id : x \in step.post.positions}

C14_Witness ==
  /\ Invoked
  /\ \E step \in StepsOfLast : \E pos \in TargetOf(step) :
       /\ step.decision.action = "close"
       /\ step.decision.symbol # pos.symbol
       /\ step.decision.side = None
       /\ step.decision.quantity = None
       /\ pos.side = "short"
       /\ step.validation_passed
       /\ quote[pos.symbol] # None
       /\ quote[step.decision.symbol] # None
       /\ quote[pos.symbol] # quote[step.decision.symbol]
       /\ Len(step.post.trades) = Len(step.pre.trades) + 1
       /\ step.post.trades[Len(step.post.trades)].symbol = pos.symbol

\* C15: when execute_order finds no market price for the order's symbol,
\* the order is stored rejected with the reason 'Could not fetch market
\* price', no trade is made, no position or trade is created or removed
\* and the portfolios and participants are unchanged.
C15_NoPriceRejects ==
  Invoked =>
    \A step \in StepsOfLast :
      LET order == step.post.orders[step.order_id]
      IN (step.validation_passed /\ quote[order.symbol] = None) =>
           /\ order.status = "rejected"
           /\ order.rejection_reason = "Could not fetch market price"
           /\ order.executed_price = None
           /\ step.raised = ""
           /\ step.post.trades = step.pre.trades
           /\ step.post.positions = step.pre.positions
           /\ step.post.portfolios = step.pre.portfolios
           /\ step.post.participants = step.pre.participants

C15_Witness ==
  /\ Invoked
  /\ \E step \in StepsOfLast : \E pos \in TargetOf(step) :
       /\ step.decision.action = "close"
       /\ step.validation_passed
       /\ quote[pos.symbol] = None
       /\ quote[step.decision.symbol] # None
       /\ step.post.orders[step.order_id].rejection_reason = "Could not fetch market price"
       /\ pos \in positions

\* C16: when the agent call fails, the invocation ends with status error
\* and the elapsed time recorded; no order, trade or position is written
\* and the portfolios and participants are unchanged.
C16_TransportError ==
  (Invoked /\ last.reply.kind = "error") =>
    /\ InvocationOfLast.status = "error"
    /\ InvocationOfLast.response_time_ms # None
    /\ Untouched(last.pre, Snapshot(Work))

C16_Witness ==
  /\ Invoked
  /\ last.reply.kind = "error"
  /\ InvocationOfLast.status = "error"
  /\ InvocationOfLast.response_time_ms = Some("elapsed")
  /\ \E x \in positions : x.participant_id = last.p

\* C17: when the agent call runs past the participant's timeout, the
\* invocation ends with status timeout, not error, and nothing but the
\* invocation row is written.
C17_TimeoutStatus ==
  (Invoked /\ last.reply.kind = "timeout") =>
    /\ InvocationOfLast.status = "timeout"
    /\ Untouched(last.pre, Snapshot(Work))

\* C18: when no valid decision can be parsed from the agent's reply, the
\* invocation ends with status invalid_response, keeps the raw reply text,
\* and no order, trade or position is created.
C18_UnparseableReply ==
  (Invoked /\ last.reply.kind = "garbage") =>
    /\ InvocationOfLast.status = "invalid_response"
    /\ InvocationOfLast.response_text = Some("raw")
    /\ orders = last.pre.orders
    /\ trades = last.pre.trades
    /\ positions = last.pre.positions

C18_Witness ==
  /\ Invoked
  /\ last.reply.kind = "garbage"
  /\ InvocationOfLast.status = "invalid_response"
  /\ InvocationOfLast.response_text # None
  /\ InvocationOfLast.execution_results = None

\* C19: an invocation whose parsed decision is hold ends with status
\* success and executes nothing: no order, trade or position is written
\* and the portfolios are unchanged, also when the reply lists orders.
C19_HoldExecutesNothing ==
  (Invoked /\ last.reply.kind = "decision" /\ last.reply.decision = "hold") =>
    /\ InvocationOfLast.status = "success"
    /\ last.steps = <<>>
    /\ Untouched(last.pre, Snapshot(Work))

C19_Witness ==
  /\ Invoked
  /\ last.reply.kind = "decision"
  /\ last.reply.decision = "hold"
  /\ last.reply.orders # <<>>
  /\ last.reply.orders[1].action = "close"
  /\ \E pos \in positions :
       /\ pos.participant_id = last.p
       /\ last.reply.orders[1].position_id = Some(pos.id)
       /\ quote[pos.symbol] # None
  /\ InvocationOfLast.status = "success"

\* C20: when the execution of one order of a parsed reply fails with an
\* error, the invocation keeps status success, its execution_results are
\* recorded, and every order of the reply is still attempted.
C20_OrderFailureContained ==
  (Invoked /\ \E step \in StepsOfLast : step.raised # "") =>
    /\ InvocationOfLast.status = "success"
    /\ InvocationOfLast.execution_results # None
    /\ Len(last.steps) = Len(last.reply.orders)

\* C21: the execution of one order is atomic: when it fails, nothing it
\* wrote stays (no position, no trade, no portfolio or counter change, no
\* history row; the order row itself is not executed), and what the orders
\* before it did is kept.
C21_OrderAtomic ==
  Invoked =>
    \A step \in StepsOfLast :
      step.raised # "" =>
        /\ step.post.positions = step.pre.positions
        /\ step.post.trades = step.pre.trades
        /\ step.post.portfolios = step.pre.portfolios
        /\ step.post.participants = step.pre.participants
        /\ step.post.history = step.pre.history
        /\ step.order_id \in 1..Len(step.post.orders) =>
             step.post.orders[step.order_id].executed_price = None

\* The margin an open decision needs at the quote of its symbol.
MarginNeeded(decision) ==
  calculate_margin_required(
    calculate_notional_value(Val(decision.quantity), Val(quote[decision.symbol])),
    decision.leverage)

\* C22: the orders of a reply are validated and executed in array order,
\* each against the tables as the orders before it left them: every order
\* of the reply is handled, in order, starting from where the one before
\* ended; of two opens that each need more than half of margin_available
\* the first is executed and the second rejected for insufficient margin;
\* a second close of the same position is rejected.
C22_ArrayOrder ==
  (Invoked /\ last.reply.kind = "decision" /\ last.reply.decision = "trade") =>
    /\ Len(last.steps) = Len(last.reply.orders)
    /\ \A i \in 1..Len(last.steps) :
         /\ last.steps[i].decision = last.reply.orders[i]
         /\ i = 1 => last.steps[i].pre = last.pre
         /\ i > 1 => last.steps[i].pre = last.steps[i - 1].post
    /\ \A i \in 1..Len(last.steps), j \in 1..Len(last.steps) :
         LET first == last.steps[i]
             second == last.steps[j]
         IN /\ (/\ j = i + 1
                /\ first.decision.action = "open"
                /\ second.decision.action = "open"
                /\ first.validation_passed
                /\ 2 * MarginNeeded(first.decision)
                     > first.pre.portfolios[last.p].margin_available
                /\ 2 * MarginNeeded(second.decision)
                     > first.pre.portfolios[last.p].margin_available)
                 => /\ ~second.validation_passed
                    /\ second.post.orders[second.order_id].rejection_reason
                         = "Insufficient margin"
            /\ (/\ j = i + 1
                /\ first.decision.action = "close"
                /\ second.decision.action = "close"
                /\ first.decision.position_id = second.decision.position_id
                /\ first.post.orders[first.order_id].status = "executed")
                 => second.post.orders[second.order_id].status = "rejected"

\* C23: invoke_participant for an id that names no participant, or for a
\* participant that is not active, returns nothing and writes nothing: no
\* invocation, order, trade or position, and the agent's reply plays no part.
C23_InactiveNotInvoked ==
  (/\ last.op = "invoke"
   /\ \/ last.p \notin DOMAIN last.pre.participants
      \/ last.pre.participants[last.p].status # "active") =>
    /\ last.returned = None
    /\ invocations = last.pre_invocations
    /\ Untouched(last.pre, Snapshot(Work))
    /\ history = last.pre.history

C23_Witness ==
  /\ last.op = "invoke"
  /\ last.p \in Parts
  /\ participants[last.p].status = "liquidated"
  /\ last.reply.kind = "decision"
  /\ last.reply.decision = "trade"
  /\ \E pos \in positions :
       /\ pos.participant_id = last.p
       /\ last.reply.orders[1].action = "close"
       /\ last.reply.orders[1].position_id = Some(pos.id)
  /\ last.returned = None
  /\ invocations = <<>>

\* The participants the decision job is meant to invoke.
Eligible(before) ==
  {p \in Parts :
     /\ competitions[CompetitionOf[p]].status = "active"
     /\ ~competitions[CompetitionOf[p]].ended
     /\ before.participants[p].status = "active"}

AttemptsOf(p) == {i \in 1..Len(last.attempted) : last.attempted[i] = p}

\* C24: the decision job invokes exactly the active participants of the
\* competitions that are active and not past their end_time; participants
\* of pending, completed, cancelled or ended competitions are not invoked.
C24_OnlyRunningCompetitions ==
  last.op = "decision_tick" =>
    {p \in Parts : AttemptsOf(p) # {}} = Eligible(last.pre)

C26_PriceMissSkipsOnlyThatSymbol ==
  last.op = "mark_to_market" =>
    /\ \A pos \in last.pre.positions :
         IF quote[pos.symbol] = None
         THEN pos \in positions
         ELSE /\ Revalued(pos, Val(quote[pos.symbol])) \in positions
              /\ pos.portfolio_id \in last.updated
    /\ \A p \in Parts :
         IF p \in last.updated
         THEN Identities(portfolios[p], PositionsOf(positions, p))
         ELSE portfolios[p] = last.pre.portfolios[p]
    /\ Cardinality(positions) = Cardinality(last.pre.positions)

C26_Witness ==
  /\ last.op = "mark_to_market"
  /\ \E a \in last.pre.positions, b \in last.pre.positions :
       /\ quote[a.symbol] = None
       /\ a \in positions
       /\ quote[b.symbol] # None
       /\ Val(quote[b.symbol]) # b.current_price
       /\ b \notin positions
       /\ portfolios[b.portfolio_id] # last.pre.portfolios[b.portfolio_id]

\* What a mark-to-market run must leave alone.
MarkLeavesAlone ==
  /\ orders = last.pre.orders
  /\ trades = last.pre.trades
  /\ \A p \in Parts :
       /\ portfolios[p].cash_balance = last.pre.portfolios[p].cash_balance
       /\ portfolios[p].realized_pnl = last.pre.portfolios[p].realized_pnl
       /\ participants[p].total_trades = last.pre.participants[p].total_trades
       /\ participants[p].winning_trades = last.pre.participants[p].winning_trades
       /\ participants[p].losing_trades = last.pre.participants[p].losing_trades
  /\ {[id |-> x.id, margin_required |-> x.margin_required] : x \in positions}
       = {[id |-> x.id, margin_required |-> x.margin_required] : x \in last.pre.positions}

\* C27: a second mark-to-market run on unchanged prices leaves every
\* position, portfolio and participant as the first run left them and only
\* appends history rows; no run creates orders or trades or changes
\* cash_balance, realized_pnl, a position's margin_required or the trade
\* counters.
C27_MarkIdempotent ==
  /\ last.op \in {"mark_to_market", "mark_to_market_again"} => MarkLeavesAlone
  /\ last.op = "mark_to_market_again" =>
       /\ positions = last.pre.positions
       /\ portfolios = last.pre.portfolios
       /\ participants = last.pre.participants
       /\ Len(history) >= Len(last.pre.history)
       /\ SubSeq(history, 1, Len(last.pre.history)) = last.pre.history

C27_Witness ==
  /\ last.op = "mark_to_market_again"
  /\ Len(history) > Len(last.pre.history)
  /\ \E x \in positions : x.current_price # x.entry_price /\ x.participant_id = "p1"
  /\ trades # <<>>

\* The largest of the initial capital and the equities supplied so far.
RECURSIVE PeakOf(_, _)
PeakOf(floor, supplied) ==
  IF supplied = <<>> THEN floor
  ELSE PeakOf(IF Head(supplied) > floor THEN Head(supplied) ELSE floor, Tail(supplied))

\* C30: after every update_participant_equity call current_equity is the
\* equity supplied and peak_equity >= current_equity; peak_equity never
\* decreases and is the largest of the initial capital and the equities
\* supplied so far.
C30_PeakEquity ==
  last.op = "update_participant_equity" =>
    /\ participants[last.p].current_equity = last.new_equity
    /\ participants[last.p].peak_equity >= participants[last.p].current_equity
    /\ participants[last.p].peak_equity >= last.pre.participants[last.p].peak_equity
    /\ participants[last.p].peak_equity
         = PeakOf(participants[last.p].initial_capital, last.supplied)

C30_Witness ==
  /\ last.op = "update_participant_equity"
  /\ Len(last.supplied) = 3
  /\ last.supplied[1] < last.supplied[2]
  /\ last.supplied[2] > InitialCapital
  /\ last.supplied[3] < last.supplied[2]
  /\ participants[last.p].peak_equity = last.supplied[2]
  /\ participants[last.p].current_equity = last.supplied[3]

\* Both jobs have run to their end.
BothDone == jobs.mark.pc = "done" /\ jobs.decide.pc = "done"

\* The tables the jobs started from, as a fresh session sees them.
StartWork ==
  [participants |-> Val(jobs.start).participants, portfolios |-> Val(jobs.start).portfolios,
   positions |-> Val(jobs.start).positions, orders |-> Val(jobs.start).orders,
   trades |-> Val(jobs.start).trades, history |-> Val(jobs.start).history,
   invocations |-> Val(jobs.start).invocations, uuid |-> Val(jobs.start).uuid,
   mem |-> {}, deleted |-> {}, calls |-> <<>>, results |-> <<>>, steps |-> <<>>,
   raised |-> ""]

Accounts(d) ==
  [participants |-> d.participants, portfolios |-> d.portfolios, positions |-> d.positions]

\* The decision job run alone, then the mark-to-market job run alone.
DecideThenMark ==
  update_all_prices(
    Fresh(invoke_participant(StartWork, jobs.decide.p, Val(jobs.decide.reply), quote).d),
    quote).d

\* The mark-to-market job run alone, then the decision job run alone.
MarkThenDecide ==
  invoke_participant(Fresh(update_all_prices(StartWork, quote).d),
                     jobs.decide.p, Val(jobs.decide.reply), quote).d

RECURSIVE RealizedBy(_, _)
RealizedBy(p, rows) ==
  IF rows = <<>> THEN 0
  ELSE (IF Head(rows).participant_id = p /\ Head(rows).realized_pnl # None
        THEN Val(Head(rows).realized_pnl) ELSE 0) + RealizedBy(p, Tail(rows))

\* C28: when a mark-to-market run and an order execution for the same
\* participant overlap, the participants, portfolios and positions they
\* leave are those one of the two serial orders leaves, cash_balance and
\* realized_pnl hold every realized P&L, and the portfolio identities hold.
C28_JobsSerialized ==
  BothDone =>
    /\ Accounts(Work) \in {Accounts(DecideThenMark), Accounts(MarkThenDecide)}
    /\ \A p \in Parts :
         /\ portfolios[p].cash_balance
              = Val(jobs.start).portfolios[p].cash_balance + RealizedBy(p, trades)
         /\ portfolios[p].realized_pnl
              = Val(jobs.start).portfolios[p].realized_pnl + RealizedBy(p, trades)
         /\ Identities(portfolios[p], PositionsOf(positions, p))

\* C29: while the decision job waits for the reply of an agent, a
\* mark-to-market run still starts and runs to its end.
C29_MarkNotDelayed ==
  (jobs.decide.pc = "waiting") ~> (jobs.mark.pc = "done")

C29_Witness ==
  /\ jobs.decide.pc = "waiting"
  /\ jobs.mark.pc = "done"
  /\ jobs.mark.overlapped
  /\ jobs.mark.updated # {}
  /\ \E x \in positions : x.current_price # x.entry_price

\* The fields of a position that no revaluation may change.
EntryTerms(x) ==
  [id |-> x.id, quantity |-> x.quantity, entry_price |-> x.entry_price, side |-> x.side,
   leverage |-> x.leverage, margin_required |-> x.margin_required]

\* C31: the margin_required of a position is its entry notional divided by
\* its leverage and no operation changes it: a revaluation and the final
\* revaluation inside a close leave quantity, entry_price, side, leverage
\* and margin_required as they were, and a close releases that margin.
C31_MarginFixedAtEntry ==
  /\ \A x \in positions :
       x.margin_required
         = calculate_margin_required(calculate_notional_value(x.quantity, x.entry_price),
                                     x.leverage)
  /\ last.op \in {"invoke", "mark_to_market", "check_and_liquidate"} =>
       /\ \A x \in positions :
            \A y \in last.pre.positions : y.id = x.id => EntryTerms(x) = EntryTerms(y)
       /\ \A i \in (Len(last.pre.trades) + 1)..Len(trades) :
            trades[i].action = "close" =>
              \E y \in last.pre.positions :
                 /\ y.id \notin {x.id : x \in positions}
                 /\ trades[i].margin_impact = -y.margin_required

C31_Witness ==
  /\ last.op = "invoke"
  /\ Len(trades) > Len(last.pre.trades)
  /\ trades[Len(trades)].action = "close"
  /\ trades[Len(trades)].margin_impact
       # -calculate_margin_required(trades[Len(trades)].notional_value,
                                   trades[Len(trades)].leverage)
  /\ \E x \in positions :
       /\ x.current_price # x.entry_price
       /\ x.margin_required # calculate_margin_required(x.notional_value, x.leverage)

(* ---------------------------------------------------------------------- *)
(* Orders whose terms no position may have.                                *)
(* ---------------------------------------------------------------------- *)
\* LLMOrderDecision takes any number as quantity and as leverage.
OddOpenDecisions ==
  [action : {"open"}, symbol : {"BTCUSDT"}, side : {Some("buy")},
   quantity : {Some(-1), Some(0), Some(1)}, leverage : {-1, 0, 1, 20},
   position_id : {None}]

OddReplies ==
  [kind : {"decision"}, decision : {"trade"},
   orders : {<<o>> : o \in OddOpenDecisions}
            \cup {<<o, c>> : o \in {x \in OddOpenDecisions : x.quantity = Some(1)},
                            c \in {x \in CloseDecisions :
                                     x.side = None /\ x.position_id = Some(1)}}]

NextOrders ==
  \/ \E p \in Agents, reply \in OddReplies : Invoke(p, reply)
  \/ MarkToMarket
  \/ \E s \in Symbols : \E q \in {None} \cup {Some(v) : v \in Prices[s]} : QuoteChange(s, q)

SpecOrders == Init /\ [][NextOrders]_vars

BadTerms(order_decision) ==
  \/ order_decision.quantity # None /\ Val(order_decision.quantity) <= 0
  \/ order_decision.leverage <= 0
  \/ order_decision.leverage > MaxLeverage

\* C32: every position has a quantity above zero and a leverage above zero
\* and not above the limit of the competition, and handling an agent order
\* whose quantity or leverage is not positive, or whose leverage is above the
\* limit, adds no position.
C32_PositionTermsInRange ==
  /\ \A x \in positions :
       x.quantity > 0 /\ x.leverage > 0 /\ x.leverage <= MaxLeverage
  /\ last.op = "invoke" =>
       \A i \in 1..Len(last.steps) :
         BadTerms(last.steps[i].decision) =>
           last.steps[i].post.positions \subseteq last.steps[i].pre.positions

C32_Witness ==
  /\ last.op = "invoke"
  /\ \E i \in 1..Len(last.steps) :
       /\ last.steps[i].decision.leverage = -1
       /\ last.steps[i].validation_passed
       /\ last.steps[i].raised = "TypeError"
  /\ positions # {}

calculate_optimal_interval(record_count, target_points) ==
  IF record_count <= 1000 THEN 0
  ELSE IF record_count <= 2 * target_points THEN 5
  ELSE IF record_count <= 4 * target_points THEN 15
  ELSE IF record_count <= 8 * target_points THEN 30
  ELSE IF record_count <= 16 * target_points THEN 60
  ELSE IF record_count <= 32 * target_points THEN 120
  ELSE IF record_count <= 64 * target_points THEN 240
  ELSE 1440

\* total_minutes = int(timestamp / 60);
\* bucket_timestamp = (total_minutes // interval_minutes) * interval_minutes * 60
bucket_timestamp(recorded_at, interval_minutes) ==
  (((recorded_at \div 60) \div interval_minutes) * interval_minutes) * 60

\* Mutant: the first record of a bucket is kept.
Bucket_keeps_first(buckets, record, interval_minutes) ==
  LET key == bucket_timestamp(record.recorded_at, interval_minutes)
  IN IF key \notin DOMAIN buckets.at
     THEN [at |-> buckets.at @@ (key :> record), keys |-> Append(buckets.keys, key)]
     ELSE buckets

\* One iteration of the loop over the records: buckets is the dict, at its
\* content and keys the order in which its keys were inserted.
Bucket(buckets, record, interval_minutes) ==
  LET key == bucket_timestamp(record.recorded_at, interval_minutes)
  IN IF key \notin DOMAIN buckets.at
     THEN [at |-> buckets.at @@ (key :> record), keys |-> Append(buckets.keys, key)]
     ELSE IF record.recorded_at > buckets.at[key].recorded_at
     THEN [buckets EXCEPT !.at[key] = record]
     ELSE buckets

\* for record in records: the records from..to are taken in their order.  The
\* range is halved and the buckets of the first half are a value before the
\* second half is entered, which keeps the evaluation shallow.
RECURSIVE Bucketed(_, _, _, _, _)
Bucketed(buckets, records, from, to, interval_minutes) ==
  IF from > to THEN buckets
  ELSE IF from = to THEN Bucket(buckets, records[from], interval_minutes)
  ELSE CHOOSE both \in
         {Bucketed(first, records, (from + to) \div 2 + 1, to, interval_minutes) :
            first \in {Bucketed(buckets, records, from, (from + to) \div 2,
                                interval_minutes)}} : TRUE

\* key=lambda r: r.recorded_at
Earlier(a, b) == a.recorded_at < b.recorded_at

downsample_history(records, interval_minutes) ==
  IF records = <<>> \/ interval_minutes = 0 THEN records
  ELSE LET buckets == Bucketed([at |-> <<>>, keys |-> <<>>], records, 1, Len(records), interval_minutes)
       IN SortSeq([i \in 1..Len(buckets.keys) |-> buckets.at[buckets.keys[i]]], Earlier)

adaptive_downsample(records, target_points) ==
  LET optimal_interval == calculate_optimal_interval(Len(records), target_points)
  IN IF optimal_interval = 0
     THEN [records |-> records, interval |-> 0]
     ELSE [records |-> downsample_history(records, optimal_interval),
           interval |-> optimal_interval]

\* The history rows of a participant in the order of the query
\* (recorded_at ascending): count rows from the time first on, spacing
\* seconds apart, run rows sharing each time.
HistoryRows(count, first, spacing, run) ==
  [i \in 1..count |-> [id |-> i, participant_id |-> "p1",
                      recorded_at |-> first + ((i - 1) \div run) * spacing]]

RecordCounts == {0, 1, 2, 1000, 1001, 1002}

FirstTimes == {0, 59, 86399}

Spacings == {1, 45, 60, 300}

TargetPoints == {1, 15, 16, 31, 32, 62, 63, 125, 126, 250, 251, 500, 501, 800, 2000}

InitDownsample ==
  /\ positions = {}
  /\ uuid = 0
  /\ portfolios = [p \in Parts |-> create_portfolio(InitialCapital)]
  /\ participants = [p \in Parts |->
        [status |-> "active", current_equity |-> InitialCapital,
         initial_capital |-> InitialCapital, peak_equity |-> InitialCapital,
         total_trades |-> 0, winning_trades |-> 0, losing_trades |-> 0]]
  /\ orders = <<>>
  /\ trades = <<>>
  /\ \E count \in RecordCounts, first \in FirstTimes, spacing \in Spacings, run \in {1, 2} :
       history = HistoryRows(count, first, spacing, run)
  /\ invocations = <<>>
  /\ quote = [s \in Symbols |-> Some(SeedQuote[s])]
  /\ ticks = 0
  /\ competitions = [c \in Competitions |-> [status |-> "active", ended |-> FALSE]]
  /\ jobs = JobsIdle
  /\ last = [op |-> "init"]

\* history, interval_used = adaptive_downsample(history, target_points) in
\* get_competition_history, target_points being above zero.
AdaptiveDownsample(target_points) ==
  /\ last.op = "init"
  /\ \E out \in {adaptive_downsample(history, target_points)} :
       last' = [op |-> "adaptive_downsample", target_points |-> target_points,
                records |-> out.records, interval |-> out.interval]
  /\ UNCHANGED <<participants, portfolios, positions, orders, trades, history,
                 invocations, uuid, quote, ticks, competitions, jobs>>

NextDownsample == \E target_points \in TargetPoints : AdaptiveDownsample(target_points)

SpecDownsample == InitDownsample /\ [][NextDownsample]_vars

Ladder == <<5, 15, 30, 60, 120, 240>>

\* The interval the ladder gives for N records and a target: the step of the
\* first k with N / target <= 2^k, a day when there is none up to 2^6.
LadderStep(N, target) ==
  LET fits == {k \in 1..Len(Ladder) : N <= (2 ^ k) * target}
  IN IF fits = {} THEN 1440
     ELSE Ladder[CHOOSE k \in fits : \A j \in fits : k <= j]

BucketOf(recorded_at, interval) == (recorded_at \div 60) \div interval

\* C34: adaptive_downsample returns at most 1000 records as they are, with
\* interval 0; for more records the interval is that of the ladder, every
\* bucket of the interval that holds an input record is represented in the
\* output by exactly one record, an input record with the greatest
\* recorded_at of the bucket, and the output is in ascending order of
\* recorded_at and not longer than the input.
C34_AdaptiveDownsample ==
  last.op = "adaptive_downsample" =>
    LET N == Len(history)
        out == last.records
        interval == last.interval
        times == {history[i].recorded_at : i \in 1..N}
        kept == {out[i].recorded_at : i \in 1..Len(out)}
    IN IF N <= 1000
       THEN out = history /\ interval = 0
       ELSE /\ interval = LadderStep(N, last.target_points)
            /\ Len(out) <= N
            /\ \A i \in 1..Len(out) : \E j \in 1..N : out[i] = history[j]
            /\ \A i \in 1..(Len(out) - 1) :
                 /\ out[i].recorded_at < out[i + 1].recorded_at
                 /\ BucketOf(out[i].recorded_at, interval)
                      # BucketOf(out[i + 1].recorded_at, interval)
            /\ \A t \in times :
                 \E u \in kept : /\ BucketOf(u, interval) = BucketOf(t, interval)
                                 /\ u >= t

C34_Witness ==
  /\ last.op = "adaptive_downsample"
  /\ Len(history) = 1001
  /\ last.interval = 60
  /\ Len(last.records) > 1
  /\ Len(last.records) < Len(history)

(* ---------------------------------------------------------------------- *)
(* An invocation during which the market moves: validate_order and         *)
(* execute_order each ask the feed for the price.                          *)
(* ---------------------------------------------------------------------- *)
Feeds == {f \in [Symbols -> {None} \cup {Some(v) : v \in Prices["BTCUSDT"]}] :
            \A s \in Symbols : f[s] # None => Val(f[s]) \in Prices[s]}

\* One call of invoke_participant whose agent replies with one order that
\* carries its side and quantity: validate_order reads the quotes of the
\* state, execute_order those the feed gives a moment later.
InvokeWhilePriceMoves(p, order_decision, later) ==
  /\ Len(invocations) < MaxInvocations
  /\ participants[p].status = "active"
  /\ \E d0 \in {Received(commit([Work EXCEPT !.invocations = Append(@,
                          [participant_id |-> p, status |-> "pending",
                           response_text |-> None, response_time_ms |-> None,
                           execution_results |-> None, error_message |-> ""])]),
                         Len(invocations) + 1)} :
     \E verdict \in {validate_order(d0, p, order_decision.symbol, Val(order_decision.side),
                                    Val(order_decision.quantity), order_decision.leverage,
                                    order_decision.action, order_decision.position_id,
                                    quote)} :
     \E out \in {Conclude(ProcessValidated(d0, p, order_decision,
                                           Resolve(d0, order_decision), verdict,
                                           Len(invocations) + 1, later),
                          Len(invocations) + 1)} :
       /\ Store(out)
       /\ last' = [op |-> "invoke_moving", p |-> p, later |-> later,
                   pre |-> Snapshot(Work), steps |-> out.steps, calls |-> out.calls]
  /\ UNCHANGED <<quote, ticks, competitions, jobs>>

NextMoving ==
  \/ \E p \in Agents, order_decision \in OpenDecisions, later \in Feeds :
       InvokeWhilePriceMoves(p, order_decision, later)
  \/ MarkToMarket
  \/ \E s \in Symbols : \E q \in {None} \cup {Some(v) : v \in Prices[s]} : QuoteChange(s, q)

SpecMoving == Init /\ [][NextMoving]_vars

C36_EquityMirrored ==
  last.op \in {"invoke", "mark_to_market", "check_and_liquidate"} =>
    \A p \in Parts : participants[p].current_equity = portfolios[p].equity

(* ---------------------------------------------------------------------- *)
(* An invocation in flight while other operations run: the agent is called *)
(* between DecideStart and the reply.                                      *)
(* ---------------------------------------------------------------------- *)
\* The reply arrives with one order.  The session read the participant row
\* for the agent call (participant.llm_provider) when its status was active
\* and nothing has expired the row since: validate_order of the first order
\* reads that status.  The commit of the order row expires the row, and
\* everything after it reads the tables.
ReplyInFlight(order_decision) ==
  /\ jobs.decide.pc = "waiting"
  /\ \E d0 \in {Received(Work, jobs.decide.iid)} :
     \E resolved \in {Resolve(d0, order_decision)} :
     \E handled \in
        {IF resolved.side = None \/ resolved.quantity = None
         THEN ProcessResolved(d0, jobs.decide.p, order_decision, resolved,
                              jobs.decide.iid, quote)
         ELSE ProcessValidated(
                d0, jobs.decide.p, order_decision, resolved,
                validate_order([d0 EXCEPT !.participants[jobs.decide.p].status = "active"],
                               jobs.decide.p, resolved.symbol, Val(resolved.side),
                               Val(resolved.quantity), order_decision.leverage,
                               order_decision.action, order_decision.position_id, quote),
                jobs.decide.iid, quote)} :
     \E out \in {Conclude(handled, jobs.decide.iid)} :
       /\ Store(out)
       /\ last' = [op |-> "reply_in_flight", p |-> jobs.decide.p,
                   pre |-> Snapshot(Work), steps |-> out.steps, calls |-> out.calls]
  /\ jobs' = [jobs EXCEPT !.decide = [@ EXCEPT !.pc = "done"]]
  /\ UNCHANGED <<quote, ticks, competitions>>

NextFlight ==
  \/ \E p \in Agents : DecideStart(p)
  \/ \E order_decision \in OpenDecisions \cup CloseDecisions : ReplyInFlight(order_decision)
  \/ MarkToMarket
  \/ \E p \in Parts : CheckAndLiquidate(p)
  \/ \E s \in Symbols : \E q \in {None} \cup {Some(v) : v \in Prices[s]} : QuoteChange(s, q)

SpecFlight == Init /\ [][NextFlight]_vars

RECURSIVE TradesOf(_, _)
TradesOf(p, rows) ==
  IF rows = <<>> THEN <<>>
  ELSE IF Head(rows).participant_id = p THEN <<Head(rows)>> \o TradesOf(p, Tail(rows))
  ELSE TradesOf(p, Tail(rows))

\* C37: a liquidated participant stays liquidated, and an operation that
\* finds a participant liquidated writes no trade and no position for it,
\* the end of an invocation that was in flight when the participant was
\* liquidated included.
C37_LiquidatedIsFinal ==
  last.op \in {"invoke", "mark_to_market", "check_and_liquidate", "reply_in_flight"} =>
    \A p \in Parts :
      last.pre.participants[p].status = "liquidated" =>
        /\ participants[p].status = "liquidated"
        /\ TradesOf(p, trades) = TradesOf(p, last.pre.trades)
        /\ {x.id : x \in PositionsOf(positions, p)}
             \subseteq {x.id : x \in PositionsOf(last.pre.positions, p)}

\* The trades that name an order.
TradesFor(oid) == {i \in 1..Len(trades) : trades[i].order_id = oid}

\* C38: when an invocation has ended, every order row it wrote is executed
\* or rejected, an order is executed exactly when one trade names it, a
\* rejected order is named by no trade, and an increase or decrease that
\* passed validation is rejected having changed nothing but its own row.
C38_OrdersSettled ==
  last.op = "invoke" =>
    /\ \A oid \in (Len(last.pre.orders) + 1)..Len(orders) :
         /\ orders[oid].status \in {"executed", "rejected"}
         /\ orders[oid].status = "executed" <=> Cardinality(TradesFor(oid)) = 1
         /\ orders[oid].status = "rejected" => TradesFor(oid) = {}
    /\ \A i \in 1..Len(last.steps) :
         LET step == last.steps[i]
         IN (step.decision.action \in {"increase", "decrease"} /\ step.validation_passed) =>
              /\ step.post.orders[step.order_id].status = "rejected"
              /\ step.post.positions = step.pre.positions
              /\ step.post.trades = step.pre.trades
              /\ step.post.portfolios = step.pre.portfolios
              /\ step.post.participants = step.pre.participants

(* ---------------------------------------------------------------------- *)
(* Two invocations of one participant under way at the same time, each     *)
(* closing a position.  No row is locked and no version column is kept.    *)
(* ---------------------------------------------------------------------- *)
\* invoke_participant of caller c from its start to the SELECT of the
\* position in _execute_close: the agent asks to close a position, the
\* order passes validation and is committed pending, execute_order loads
\* the participant and the portfolio and asks the feed for the price.
CloseStart(c, p, position_id) ==
  /\ jobs.closers[c].pc = "idle"
  /\ participants[p].status = "active"
  /\ \E position \in positions :
       /\ position.id = position_id
       /\ quote[position.symbol] # None
       /\ \E d0 \in {Received(commit([Work EXCEPT !.invocations = Append(@,
                          [participant_id |-> p, status |-> "pending",
                           response_text |-> None, response_time_ms |-> None,
                           execution_results |-> None, error_message |-> ""])]),
                        Len(invocations) + 1)} :
          \E resolved \in {Resolve(d0, CloseOf(position))} :
            /\ validate_order(d0, p, resolved.symbol, Val(resolved.side),
                              Val(resolved.quantity), 1, "close", Some(position_id),
                              quote).ok
            /\ Store(AddOrder(d0, p, CloseOf(position), resolved, "pending", "",
                              Len(invocations) + 1))
       /\ jobs' = [jobs EXCEPT
             !.start = Started,
             !.closers[c] = [pc |-> "loaded", p |-> p, iid |-> Len(invocations) + 1,
                             oid |-> Len(orders) + 1,
                             decision |-> Some(CloseOf(position)),
                             position |-> Some(position),
                             portfolio |-> Some(portfolios[p]),
                             price |-> quote[position.symbol],
                             present |-> TRUE]]
  /\ last' = [op |-> "close_start"]
  /\ UNCHANGED <<quote, ticks, competitions>>

\* _execute_close of caller c from close_position on, and the end of the
\* invocation.  The session works on the position and the portfolio it
\* loaded: the DELETE of a row that is gone matches nothing and only warns,
\* the UPDATE of the portfolio carries the columns that differ from the
\* loaded ones.  Every commit expires the session, so that the counters of
\* the participant and the second update_portfolio read the tables.
CloseSettle(c) ==
  /\ jobs.closers[c].pc = "loaded"
  /\ \E me \in {jobs.closers[c]} :
     \E d0 \in {[Work EXCEPT !.portfolios[me.p] = Val(me.portfolio),
                             !.orders[me.oid].executed_price = me.price]} :
     \E closed \in {close_position(d0, Val(me.position), Val(me.price))} :
     \E staged \in {[closed.d EXCEPT
                       !.portfolios[me.p].cash_balance = @ + closed.realized_pnl,
                       !.portfolios[me.p].realized_pnl = @ + closed.realized_pnl]} :
     \E computed \in {Recomputed(staged.portfolios[me.p],
                                 {x \in QueryPositions(staged) : x.portfolio_id = me.p})} :
     \E written \in {commit([staged EXCEPT !.portfolios[me.p] =
                        Written(portfolios[me.p], Val(me.portfolio), computed)])} :
     \E released \in {LogCall(record_portfolio_history(written, me.p), me.p)} :
     \E settled \in {RefreshEquity(
                       update_portfolio(
                         RecordClose(released, me.oid, me.p, Val(me.price),
                                     Val(me.position), closed),
                         me.p),
                       me.p)} :
     \E out \in {Conclude(Report(Work, settled, Val(me.decision), me.oid, TRUE, ""),
                          me.iid)} :
       /\ Store(out)
       /\ jobs' = [jobs EXCEPT
             !.closers[c] = [@ EXCEPT
                !.pc = "done",
                !.present = Val(me.position).id \in {x.id : x \in positions}]]
  /\ last' = [op |-> "close_settle"]
  /\ UNCHANGED <<quote, ticks, competitions>>

\* The market moves while the invocations are under way, MaxMoves times at
\* most.
QuoteMove(s, q) ==
  /\ jobs.moves < MaxMoves
  /\ quote[s] # q
  /\ quote' = [quote EXCEPT ![s] = q]
  /\ jobs' = [jobs EXCEPT !.moves = @ + 1]
  /\ last' = [op |-> "quote"]
  /\ UNCHANGED <<participants, portfolios, positions, orders, trades, history,
                 invocations, uuid, ticks, competitions>>

NextRace ==
  \/ \E c \in Closers, p \in Agents, position_id \in 1..MaxSeedPositions :
       CloseStart(c, p, position_id)
  \/ \E c \in Closers : CloseSettle(c)
  \/ MarkToMarket
  \/ \E p \in Agents : CheckAndLiquidate(p)
  \/ \E s \in Symbols : \E q \in {None} \cup {Some(v) : v \in Prices[s]} : QuoteMove(s, q)

SpecRace == Init /\ [][NextRace]_vars

\* C39: a position is closed at most once: a close is carried out only on a
\* position that is still open, and of two invocations of one participant
\* that close the same position at most one adds its realized P&L to
\* cash_balance and realized_pnl and at most one counts a trade.
C39_ClosedOnce ==
  \A c \in Closers :
    jobs.closers[c].pc = "done" =>
      /\ jobs.closers[c].present
      /\ \A e \in Closers \ {c} :
           (/\ jobs.closers[e].pc = "done"
            /\ Val(jobs.closers[e].position).id = Val(jobs.closers[c].position).id
            /\ participants[jobs.closers[c].p].status = "active") =>
             LET p == jobs.closers[c].p
                 before == Val(jobs.start)
                 credits == {PnlAt(Val(jobs.closers[x].position), Val(jobs.closers[x].price)) :
                               x \in {c, e}}
             IN /\ participants[p].total_trades <= before.participants[p].total_trades + 1
                /\ portfolios[p].cash_balance - before.portfolios[p].cash_balance \in credits
                /\ portfolios[p].realized_pnl - before.portfolios[p].realized_pnl \in credits

(* ---------------------------------------------------------------------- *)
(* The end of an invocation.                                               *)
(* ---------------------------------------------------------------------- *)
FinalStatuses == {"success", "error", "invalid_response", "timeout"}

\* C40: every invocation persisted as pending reaches a final status: once
\* invoke_participant is over, whatever the agent call, the parser and the
\* processing of the orders did, no invocation row is left pending.
C40_InvocationsConcluded ==
  \A i \in 1..Len(invocations) : invocations[i].status \in FinalStatuses
====
